---- MODULE Spec2Model ----
(***************************************************************************)
(* Model of the pipiline_agent orchestration engine.                       *)
(*                                                                         *)
(* Part 1: the FSM runtime of core/fsm.py: states, transitions, verifier   *)
(* wrappers, compile() and the driver loop of run().                       *)
(*                                                                         *)
(* Part 2: the message ledger of core/memory.py and the sockets and agent  *)
(* execution of core/agents.py; the driver's executions commit to the      *)
(* agents' ledgers and read their sockets.                                 *)
(*                                                                         *)
(* Part 3: the tool-call loop of agent/simple.py and core/agents.py, and   *)
(* what ChatOllama.invoke of chat/chat_ollama.py hands to its client.      *)
(*                                                                         *)
(* Part 4: the fuzzy aligner of core/aligner.py and the ToolAligner of     *)
(* core/chat.py.                                                           *)
(*                                                                         *)
(* Part 5: the command-line monitor of cmd_line/cmd_tools.py with its      *)
(* lock (core/monitor.py), the threads of monitor_cmd, and the background  *)
(* tools of coding/python_tools.py.                                        *)
(*                                                                         *)
(* Strings are modelled as sequences of tokens, so that str.strip() is a   *)
(* real conversion: "" is << >>, "FAILED" is <<"FAILED">>, a state name n  *)
(* is <<n>>, and a verifier answer may carry whitespace tokens around it.  *)
(***************************************************************************)
EXTENDS Integers, Sequences, FiniteSets, TLC

\* ------------------------------------------------------------------ bounds
MaxTransitions == 4
MaxRetries == 1
MaxSteps == 5
MaxStepsCompile == 3
MaxCompiles == 1
MaxTransitionsCompile == 3
MaxCommits == 2
MaxRounds == 2
MaxToolCalls == 2
MaxAddTools == 2
MaxProcs == 2
MaxLines == 2
MaxFairLines == 1
MaxBgLines == 1
MaxPolls == 2
PipeCapacity == 2

\* ------------------------------------------------------- program constants
DefaultMaxRetries == 3

\* ------------------------------------------------------------------- names
Names == {"S0", "A", "B", "ERROR"}
StateOrder == <<"S0", "A", "B", "ERROR">>
Kinds == {"Start", "End", "Stable", "Transient", "Absent"}
NoneVal == "None"
ErrorStateId == "<error_state>"
WS == {" ", "\n"}
EmptyStr == << >>
FAILED == <<"FAILED">>
UNSET == <<"<unbound>">>
Request == <<"req">>

VARIABLES
  cls,                    \* class of each declared state (Absent: not added)
  transitions,            \* FSM.transitions: source -> list of Transition
  verifier,               \* State.verifier
  max_retries,            \* State.max_retries
  subscriptions,          \* State.subscriptions
  retries_counter,        \* State.retries_counter
  sysprompts,             \* verifier agent's _sysprompts
  sockets,                \* agent's _sockets: the socket names added
  target_state,           \* StartState.target_state
  initial_state,          \* FSM.initial_state
  initial_context_ledger, \* FSM.initial_context_ledger
  pc,                     \* position of run(): idle, loop, done, raised
  max_steps,              \* argument of run()
  step,                   \* iterations of the for loop started so far
  current_state,          \* local of run()
  current_input,          \* local of run()
  last_stable_state_name, \* local of run()
  output,                 \* local of run()
  final_output,           \* local of run(), the value returned
  result,                 \* local of run(): the StateExecutionResult
  last,                   \* history: what the latest driver step did
  log,                    \* history: the state executions of this run
  iterations,             \* history: loop iterations performed
  compiles,               \* history: explicit compile() calls made
  compileRaised,          \* history: did the latest compile() raise
  agent_history,          \* BaseAgent._history: the ledger of each agent
  latest_messages,        \* local of __execute__: what its sockets returned
  commits,                \* history: commit calls made on each ledger
  io,                     \* history: the latest ledger or socket operation
  delivered,              \* history: what read_new_history gave each socket
  agent_config,           \* the agent: its registry, aligner, schema, model
  prompts,                \* local of _invoke_model: the prompt list
  iteration,              \* local of _invoke_model
  finished,               \* local of _invoke_model
  response,               \* local of _invoke_model: the latest ChatResponse
  loop_pc,                \* position of _invoke_model
  invocations,            \* history: calls of model.invoke
  requested,              \* history: tool calls requested over all rounds
  tool_trace,             \* history: what was done for each tool call
  aligner,                \* the ToolAligner: its pools and args thresholds
  similarity,             \* what the scorers give for each query and phrase
  align_io,               \* history: the latest aligner operation
  chat_model,             \* the ChatOllama: induced mode and bound tools
  chat_sent,              \* history: what the latest invoke sent the client
  procs,                  \* the background processes and their pipes
  monitors,               \* the CmdLineMonitor of each process
  runner,                 \* CmdLineRunner._process and ._monitor
  threads,                \* the caller, the readers and the waiters
  workspace,              \* PythonWorkSpace.monitor
  tool_call,              \* the call of run_script or monitor_process
  drained                 \* history: what get_stdout and get_stderr gave

cfgVars == <<cls, transitions, verifier, max_retries, subscriptions>>
compVars == <<sysprompts, sockets, target_state, initial_state>>
runVars == <<pc, max_steps, step, current_state, current_input,
             last_stable_state_name, output, final_output, result,
             initial_context_ledger>>
histVars == <<last, log, iterations, compiles, compileRaised>>
ledgerVars == <<agent_history, latest_messages, commits>>
socketHist == <<io, delivered>>
toolVars == <<agent_config, prompts, iteration, finished, response, loop_pc,
              invocations, requested, tool_trace, chat_model, chat_sent>>
alignVars == <<aligner, similarity, align_io>>
cmdVars == <<procs, monitors, runner, threads, workspace, tool_call, drained>>
extVars == <<alignVars, cmdVars>>
vars == <<cfgVars, compVars, runVars, histVars, retries_counter, ledgerVars,
          socketHist, toolVars, extVars>>
nonAlignVars ==
  <<cfgVars, compVars, runVars, histVars, retries_counter, ledgerVars,
    socketHist, toolVars, cmdVars>>
nonCmdVars ==
  <<cfgVars, compVars, runVars, histVars, retries_counter, ledgerVars,
    socketHist, toolVars, alignVars>>

\* ------------------------------------------------------------ state classes
Present == {n \in Names : cls[n] # "Absent"}

\* StateType passed to State.__init__ by each class.
StateTypeOf(k) ==
  CASE k = "Start" -> "STABLE"
    [] k = "End" -> "END"
    [] k = "Stable" -> "STABLE"
    [] k = "Transient" -> "TRANSIENT"
    [] OTHER -> "ABSENT"

TypeOf(s) == IF s = ErrorStateId THEN "ERROR" ELSE StateTypeOf(cls[s])

Str(n) == <<n>>

RECURSIVE LStrip(_)
LStrip(w) == IF Len(w) > 0 /\ Head(w) \in WS THEN LStrip(Tail(w)) ELSE w

RECURSIVE RStrip(_)
RStrip(w) ==
  IF Len(w) > 0 /\ w[Len(w)] \in WS THEN RStrip(SubSeq(w, 1, Len(w) - 1)) ELSE w

Strip(w) == RStrip(LStrip(w))

Transition(src, tgt) == [source |-> src, target |-> tgt, constraint |-> "c"]

Targets(s) == {transitions[s][i].target : i \in 1..Len(transitions[s])}

\* ------------------------------------------------------ ledger and sockets
\* MemoryLedger(): an empty history and a count of 0.
MemoryLedger == [history |-> << >>, snapshots_number |-> 0]

StateSnapshot(t, o, c) == [timestamp |-> t, output |-> o, context_used |-> c]

\* What is committed is a string (the initial request) or an agent's
\* AgentExecutionResult, a dataclass of one field.
Text(v) == [dataclass |-> FALSE, output |-> v]
AgentExecutionResult(o) == [dataclass |-> TRUE, output |-> o]

\* json.dumps(asdict(snapshot)): asdict turns a nested dataclass into a
\* dictionary of its own.
JsonOutput(x) ==
  IF x.dataclass THEN <<"{", "output:">> \o x.output \o <<"}">> ELSE x.output

SnapshotStr(snap) ==
  <<"{", "timestamp:", ToString(snap.timestamp), "output:">>
    \o JsonOutput(snap.output)
    \o <<"context_used:", snap.context_used, "}">>

\* An Optional[str], and str() of it ("None" for None).
None == [some |-> FALSE, value |-> << >>]
Some(v) == [some |-> TRUE, value |-> v]
PyStr(x) == IF x.some THEN x.value ELSE <<"None">>

\* Mutant of commit: the snapshot replaces the latest one.
commit_Overwrites(L, t, out) ==
  [history |->
     IF Len(L.history) = 0 THEN <<StateSnapshot(t, out, NoneVal)>>
     ELSE [L.history EXCEPT ![Len(L.history)] = StateSnapshot(t, out, NoneVal)],
   snapshots_number |-> L.snapshots_number + 1]

\* MemoryLedger.commit(output) at time t.
commit(L, t, out) ==
  [history |-> Append(L.history, StateSnapshot(t, out, NoneVal)),
   snapshots_number |-> L.snapshots_number + 1]

get_last_snapshot(L) ==
  IF Len(L.history) = 0 THEN None
  ELSE Some(SnapshotStr(L.history[Len(L.history)]))

get_history(L) == [i \in 1..Len(L.history) |-> SnapshotStr(L.history[i])]

\* AgentSocket(name, description, memory): the ledger is held by reference.
AgentSocket(name, ledger) == [name |-> name, ledger |-> ledger, cursor |-> 0]

has_new_messages(sock, L) == L.snapshots_number > sock.cursor

unread_count(sock, L) == L.snapshots_number - sock.cursor

\* Mutant of peek_latest: the view marks the data as read.
peek_latest_MarksRead(sock, L) ==
  [socket |-> [sock EXCEPT !.cursor = L.snapshots_number],
   returned |-> PyStr(get_last_snapshot(L))]

peek_latest(sock, L) ==
  [socket |-> sock, returned |-> PyStr(get_last_snapshot(L))]

\* Mutant of read_latest: the cursor moves one snapshot forward.
read_latest_StepsByOne(sock, L) ==
  [socket |-> [sock EXCEPT !.cursor = @ + 1],
   returned |-> PyStr(get_last_snapshot(L))]

read_latest(sock, L) ==
  [socket |-> [sock EXCEPT !.cursor = L.snapshots_number],
   returned |-> PyStr(get_last_snapshot(L))]

\* Mutant of read_new_history: the slice starts one item late.
read_new_history_SkipsOne(sock, L) ==
  LET full_hist == get_history(L) IN
  [socket |-> [sock EXCEPT !.cursor = Len(full_hist)],
   returned |-> SubSeq(full_hist, sock.cursor + 2, Len(full_hist))]

\* full_hist[self._cursor:], then the cursor moves to len(full_hist).
read_new_history(sock, L) ==
  LET full_hist == get_history(L) IN
  [socket |-> [sock EXCEPT !.cursor = Len(full_hist)],
   returned |-> SubSeq(full_hist, sock.cursor + 1, Len(full_hist))]

read_entire_history(sock, L) ==
  [socket |-> [sock EXCEPT !.cursor = L.snapshots_number],
   returned |-> get_history(L)]

\* The ledgers: the one of each state's agent, the initial-context ledger
\* FSM.__init__ builds and the one run() builds in its place.
ContextAtInit == "ctx@init"
ContextAtRun == "ctx@run"
LedgerIds == Names \cup {ContextAtInit, ContextAtRun}

\* The object FSM.initial_context_ledger refers to.
CurrentContextLedger == IF pc = "idle" THEN ContextAtInit ELSE ContextAtRun

Ledger(id) ==
  IF id \in Names THEN agent_history[id]
  ELSE IF id = CurrentContextLedger THEN initial_context_ledger
  ELSE MemoryLedger

\* time.time(): a clock that ticks with every commit.
Now == commits[ContextAtInit] + commits[ContextAtRun]
       + commits["S0"] + commits["A"] + commits["B"] + commits["ERROR"]

SocketNames(skts) == {x.name : x \in skts}
SocketOf(skts, name) == CHOOSE x \in skts : x.name = name

\* BaseAgent.add_socket: the dictionary keeps one socket per name.
add_socket(skts, name, ledger) ==
  {x \in skts : x.name # name} \cup {AgentSocket(name, ledger)}

\* Mutant of get_latest_messages: the sockets are not read.
get_latest_messages_Unread(skts) ==
  [sockets |-> skts,
   result |-> [n \in SocketNames(skts) |-> PyStr(None)]]

\* BaseAgent.get_latest_messages(): read_latest on every socket.
get_latest_messages(skts) ==
  [sockets |-> {read_latest(x, Ledger(x.ledger)).socket : x \in skts},
   result |-> [n \in SocketNames(skts) |->
                 read_latest(SocketOf(skts, n),
                             Ledger(SocketOf(skts, n).ledger)).returned]]

\* The record of a ledger or socket operation, before any was made.
NoOp ==
  [op |-> "none", agent |-> NoneVal, socket |-> NoneVal, returned |-> << >>,
   before |-> 0, after |-> 0,
   prev |-> [op |-> "none", agent |-> NoneVal, socket |-> NoneVal,
             returned |-> << >>, after |-> 0]]

\* ----------------------------------------------------------------- compile
InitialContextSocketName == "__initial_context__"

HasAgent(s) == cls[s] \in {"Stable", "Transient"}

\* VerifierWrapper.add_sysprompt: a no-op, except for AgentVerifierWrapper,
\* which appends to its agent's system prompts.
AddSysprompt(v, list, prompt) ==
  IF v.type = "Agent" THEN Append(list, prompt) ELSE list

\* Mutant of VerifierPrompt: the loop over the transitions stops one short.
VerifierPrompt_DropsLast(ts) ==
  [pre |-> "verification_pre_sysprompt",
   items |-> [i \in 1..(Len(ts) - 1) |->
                [target |-> ts[i].target, constraint |-> ts[i].constraint]]]

\* The prompt State.compile_transitions builds: the pre-prompt followed by
\* one {target, constraint} line per transition, in declaration order.
VerifierPrompt(ts) ==
  [pre |-> "verification_pre_sysprompt",
   items |-> [i \in 1..Len(ts) |->
                [target |-> ts[i].target, constraint |-> ts[i].constraint]]]

\* Mutant of CompileTransitions: the Start state takes its first transition
\* without checking that it is the only one.
CompileTransitions_FirstOfMany(s, acc) ==
  IF cls[s] = "Start"
    THEN [acc EXCEPT !.target_state = transitions[s][1].target]
    ELSE IF verifier[s].type = "None"
           THEN [acc EXCEPT !.raised = TRUE]
           ELSE [acc EXCEPT !.sysprompts[s] =
                   AddSysprompt(verifier[s], @, VerifierPrompt(transitions[s]))]

\* state.compile_transitions(transitions[state.name]) for one state, on the
\* accumulated effects acc; sets acc.raised when it raises.
CompileTransitions(s, acc) ==
  IF cls[s] = "Start"
    THEN IF Len(transitions[s]) # 1
           THEN [acc EXCEPT !.raised = TRUE]
           ELSE [acc EXCEPT !.target_state = transitions[s][1].target]
    ELSE IF verifier[s].type = "None"
           THEN [acc EXCEPT !.raised = TRUE]
           ELSE [acc EXCEPT !.sysprompts[s] =
                   AddSysprompt(verifier[s], @, VerifierPrompt(transitions[s]))]

\* Mutant of CompileSubscriptions: a subscription that names no declared
\* state is skipped.
RECURSIVE CompileSubscriptions_SkipsUnknown(_, _, _)
CompileSubscriptions_SkipsUnknown(s, j, acc) ==
  IF j > Len(subscriptions[s]) THEN acc
  ELSE LET sub == subscriptions[s][j] IN
    IF sub = InitialContextSocketName
      THEN CompileSubscriptions_SkipsUnknown(s, j + 1,
             [acc EXCEPT !.sockets[s] = add_socket(@, sub, acc.ctx)])
    ELSE IF sub \notin Present \/ ~HasAgent(sub)
      THEN CompileSubscriptions_SkipsUnknown(s, j + 1, acc)
    ELSE CompileSubscriptions_SkipsUnknown(s, j + 1,
             [acc EXCEPT !.sockets[s] = add_socket(@, sub, sub)])

\* The loop over state.subscriptions, from index j on.
RECURSIVE CompileSubscriptions(_, _, _)
CompileSubscriptions(s, j, acc) ==
  IF j > Len(subscriptions[s]) THEN acc
  ELSE LET sub == subscriptions[s][j] IN
    IF sub = InitialContextSocketName
      THEN CompileSubscriptions(s, j + 1,
             [acc EXCEPT !.sockets[s] = add_socket(@, sub, acc.ctx)])
    ELSE IF sub \notin Present
      THEN [acc EXCEPT !.raised = TRUE]
    ELSE IF ~HasAgent(sub)
      THEN CompileSubscriptions(s, j + 1, acc)
    ELSE CompileSubscriptions(s, j + 1,
             [acc EXCEPT !.sockets[s] = add_socket(@, sub, sub)])

\* The loop "for state in self.states.values()", from index i of the
\* insertion order on.
RECURSIVE CompileStates(_, _)
CompileStates(i, acc) ==
  IF i > Len(StateOrder) \/ acc.raised THEN acc
  ELSE LET s == StateOrder[i] IN
    IF s \notin Present THEN CompileStates(i + 1, acc)
    ELSE LET a1 == IF Len(transitions[s]) > 0
                     THEN CompileTransitions(s, acc) ELSE acc
             a2 == IF a1.raised \/ ~HasAgent(s) THEN a1
                   ELSE CompileSubscriptions(s, 1, a1)
         IN CompileStates(i + 1, a2)

start_states == {n \in Present : cls[n] = "Start"}
end_states == {n \in Present : cls[n] = "End"}

reachable_end ==
  \E s \in Present : \E i \in 1..Len(transitions[s]) :
     transitions[s][i].target \in end_states

\* FSM.compile(): the effects of one call on the compiled fields, with
\* raised = TRUE when it ends in a RuntimeError (effects made before the
\* raise are kept).  ctx is the ledger self.initial_context_ledger refers
\* to when it is called.
compile(ctx) ==
  LET acc0 == [raised |-> FALSE, initial_state |-> initial_state,
               target_state |-> target_state, sysprompts |-> sysprompts,
               sockets |-> sockets, ctx |-> ctx]
  IN IF Cardinality(start_states) # 1 THEN [acc0 EXCEPT !.raised = TRUE]
     ELSE IF Cardinality(end_states) = 0 THEN [acc0 EXCEPT !.raised = TRUE]
     ELSE LET acc1 == [acc0 EXCEPT
                         !.initial_state = CHOOSE n \in start_states : TRUE]
          IN IF Len(transitions[acc1.initial_state]) = 0
               THEN [acc1 EXCEPT !.raised = TRUE]
             ELSE IF ~reachable_end THEN [acc1 EXCEPT !.raised = TRUE]
             ELSE CompileStates(1, acc1)

\* An explicit call of compile() by the operator, before run().
Compile ==
  /\ pc = "idle"
  /\ compiles < MaxCompiles
  /\ LET c == compile(CurrentContextLedger) IN
       /\ initial_state' = c.initial_state
       /\ target_state' = c.target_state
       /\ sysprompts' = c.sysprompts
       /\ sockets' = c.sockets
       /\ compileRaised' = c.raised
  /\ compiles' = compiles + 1
  /\ UNCHANGED <<cfgVars, runVars, retries_counter, last, log, iterations,
                 ledgerVars, socketHist,
                 toolVars, extVars>>

\* ------------------------------------------------------------- the driver
\* What the agent of state s returns on its n-th execution of this run, and
\* the message of an exception raised in that execution.  Each execution
\* has its own value, so that "which output" is observable.
ExecCount(s) == Cardinality({i \in 1..Len(log) : log[i].state = s})
ErrorRoutes == Cardinality({i \in 1..Len(log) : log[i].to = ErrorStateId})
Out(s, n) == <<"out", s, n>>
Msg(s, n) == <<"exc", s, n>>

\* What an agent verifier may answer: the name of a state that can be a
\* target, a name that is none, and a name padded with whitespace.
RawDecisions ==
  {Str(n) : n \in {"A", "B", "ERROR", "nope"}} \cup {<<" ", "B", "\n">>}

\* verifier.execute(context): the answers it may give (raised: it raised).
VerifierOutcomes(v) ==
  IF v.type = "None" THEN {[raised |-> TRUE, next_state |-> EmptyStr]}
  ELSE IF v.type = "Forward"
    THEN {[raised |-> FALSE, next_state |-> Str(v.next_state)]}
  ELSE {[raised |-> TRUE, next_state |-> EmptyStr]} \cup
       {[raised |-> FALSE, next_state |-> d] : d \in RawDecisions}

\* state.execute(context) for each class: the set of its possible outcomes.
\* committed: the agent's execute_agent returned (and so committed its
\* result) before the outcome was decided.
Execute(s, context) ==
  LET n == ExecCount(s) + 1 IN
  IF cls[s] = "Start"
    THEN IF target_state = NoneVal
           THEN {[raised |-> TRUE, next_state |-> EmptyStr, output |-> Msg(s, n),
                  committed |-> FALSE]}
           ELSE {[raised |-> FALSE, next_state |-> Str(target_state),
                  output |-> context, committed |-> FALSE]}
  ELSE IF cls[s] = "End"
    THEN {[raised |-> FALSE, next_state |-> Str("END"), output |-> context,
           committed |-> FALSE]}
  ELSE {[raised |-> TRUE, next_state |-> EmptyStr, output |-> Msg(s, n),
         committed |-> FALSE]} \cup
       {IF v.raised
          THEN [raised |-> TRUE, next_state |-> EmptyStr, output |-> Msg(s, n),
                committed |-> TRUE]
          ELSE [raised |-> FALSE, next_state |-> v.next_state,
                output |-> Out(s, n), committed |-> TRUE]
          : v \in VerifierOutcomes(verifier[s])}

\* Mutant of execute_agent: the result is committed by __execute__ and
\* again by execute_agent.
execute_agent_CommitsTwice(a, returns, out) ==
  LET lm == get_latest_messages(sockets[a]) IN
  [sockets |-> lm.sockets,
   latest_messages |-> lm.result,
   history |-> IF returns
                 THEN commit(commit(agent_history[a], Now,
                                    AgentExecutionResult(out)),
                             Now, AgentExecutionResult(out))
                 ELSE agent_history[a],
   commits |-> IF returns THEN 1 ELSE 0]

\* Mutant of execute_agent: the result is committed before it is validated.
execute_agent_CommitsUnvalidated(a, returns, out) ==
  LET lm == get_latest_messages(sockets[a]) IN
  [sockets |-> lm.sockets,
   latest_messages |-> lm.result,
   history |-> commit(agent_history[a], Now, AgentExecutionResult(out)),
   commits |-> IF returns THEN 1 ELSE 0]

\* BaseAgent.execute_agent(task_context) of the agent of state a, with
\* PlainSimpleAgent.__execute__: the prompt assembly reads the latest
\* message of every socket, the model is invoked, and the result, once
\* validated, is committed to the agent's own ledger.  returns = FALSE: the
\* invocation or the validation raised.
execute_agent(a, returns, out) ==
  LET lm == get_latest_messages(sockets[a]) IN
  [sockets |-> lm.sockets,
   latest_messages |-> lm.result,
   history |-> IF returns
                 THEN commit(agent_history[a], Now, AgentExecutionResult(out))
                 ELSE agent_history[a],
   commits |-> IF returns THEN 1 ELSE 0]

\* Mutant of transition: a name that matches no declared transition is
\* still followed when it names some declared state.
transition_NamedState(cs, res) ==
  LET ns == Strip(res.next_state)
      ts == transitions[cs]
      hits == {i \in 1..Len(ts) : Str(ts[i].target) = ns}
      named == {n \in Present : Str(n) = ns}
  IN [current_state |-> IF hits # {}
                          THEN ts[CHOOSE i \in hits : \A j \in hits : i <= j].target
                          ELSE IF named # {} THEN CHOOSE n \in named : TRUE
                          ELSE ErrorStateId,
      current_input |-> res.output,
      next_state |-> ns]

\* Mutant of transition: the input of the next state is left as it was.
transition_KeepsInput(cs, res) ==
  LET ns == Strip(res.next_state)
      ts == transitions[cs]
      hits == {i \in 1..Len(ts) : Str(ts[i].target) = ns}
  IN [current_state |-> IF hits # {}
                          THEN ts[CHOOSE i \in hits : \A j \in hits : i <= j].target
                          ELSE ErrorStateId,
      current_input |-> current_input,
      next_state |-> ns]

\* FSM.transition(current_state, current_state_result): strips the chosen
\* name, looks it up among the transitions declared from the state, and
\* falls back to the error state.
transition(cs, res) ==
  LET ns == Strip(res.next_state)
      ts == transitions[cs]
      hits == {i \in 1..Len(ts) : Str(ts[i].target) = ns}
  IN [current_state |-> IF hits # {}
                          THEN ts[CHOOSE i \in hits : \A j \in hits : i <= j].target
                          ELSE ErrorStateId,
      current_input |-> res.output,
      next_state |-> ns]

\* Mutant of retry: a retry is granted and counted whatever is left.
retry_Unchecked(counter) == [ok |-> TRUE, counter |-> counter - 1]

\* Mutant of retry: reports a retry without consuming it.
retry_KeepsCounter(counter) ==
  IF counter > 0 THEN [ok |-> TRUE, counter |-> counter]
  ELSE [ok |-> FALSE, counter |-> counter]

\* State.retry(): consumes one retry when one is left.
retry(counter) ==
  IF counter > 0 THEN [ok |-> TRUE, counter |-> counter - 1]
  ELSE [ok |-> FALSE, counter |-> counter]

\* run(initial_request, max_steps) up to the loop: seeds the initial-context
\* ledger, compiles, and sets the locals; a compile error propagates.
Run(ms) ==
  /\ pc = "idle"
  /\ initial_context_ledger' = commit(MemoryLedger, Now, Text(Request))
  /\ commits' = [commits EXCEPT ![ContextAtRun] = @ + 1]
  /\ LET c == compile(ContextAtRun) IN
       /\ initial_state' = c.initial_state
       /\ target_state' = c.target_state
       /\ sysprompts' = c.sysprompts
       /\ sockets' = c.sockets
       /\ compileRaised' = c.raised
       /\ IF c.raised \/ c.initial_state = NoneVal
            THEN /\ pc' = "raised"
                 /\ UNCHANGED <<max_steps, step, current_state, current_input,
                                last_stable_state_name, output, final_output>>
            ELSE /\ pc' = "loop"
                 /\ max_steps' = ms
                 /\ step' = 0
                 /\ current_input' = Request
                 /\ current_state' = c.initial_state
                 /\ last_stable_state_name' = c.initial_state
                 /\ final_output' = EmptyStr
                 /\ UNCHANGED output
  /\ UNCHANGED <<cfgVars, retries_counter, result, last, log, iterations,
                 compiles, agent_history, latest_messages, socketHist,
                 toolVars, extVars>>

\* A loop iteration whose current state is an End state: break.
StepEnd ==
  /\ pc = "loop" /\ step < max_steps
  /\ TypeOf(current_state) = "END"
  /\ final_output' = output
  /\ pc' = "done"
  /\ step' = step + 1
  /\ last' = [op |-> "end", state |-> current_state, raised |-> FALSE,
              raw |-> EmptyStr]
  /\ iterations' = iterations + 1
  /\ UNCHANGED <<cfgVars, compVars, retries_counter, max_steps, current_state,
                 current_input, last_stable_state_name, output, result,
                 initial_context_ledger, log, compiles, compileRaised,
                 ledgerVars, socketHist,
                 toolVars, extVars>>

\* Mutant of StepError: a successful recovery does not count as one of the
\* max_steps iterations.
StepError_FreeRecovery ==
  /\ pc = "loop" /\ step < max_steps
  /\ TypeOf(current_state) = "ERROR"
  /\ LET target == last_stable_state_name
         r == retry(retries_counter[target])
     IN /\ retries_counter' = [retries_counter EXCEPT ![target] = r.counter]
        /\ IF r.ok
             THEN /\ current_state' = last_stable_state_name
                  /\ step' = step
                  /\ UNCHANGED <<pc, final_output>>
             ELSE /\ final_output' = FAILED
                  /\ pc' = "done"
                  /\ step' = step + 1
                  /\ UNCHANGED current_state
  /\ last' = [op |-> "error", state |-> current_state, raised |-> FALSE,
              raw |-> EmptyStr]
  /\ iterations' = iterations + 1
  /\ UNCHANGED <<cfgVars, compVars, max_steps, current_input,
                 last_stable_state_name, output, result,
                 initial_context_ledger, log, compiles, compileRaised,
                 ledgerVars, socketHist,
                 toolVars, extVars>>

\* A loop iteration whose current state is the Error state: recover to the
\* last stable state when it has a retry left, else fail.
StepError ==
  /\ pc = "loop" /\ step < max_steps
  /\ TypeOf(current_state) = "ERROR"
  /\ LET target == last_stable_state_name
         r == retry(retries_counter[target])
     IN /\ retries_counter' = [retries_counter EXCEPT ![target] = r.counter]
        /\ IF r.ok
             THEN /\ current_state' = last_stable_state_name
                  /\ UNCHANGED <<pc, final_output>>
             ELSE /\ final_output' = FAILED
                  /\ pc' = "done"
                  /\ UNCHANGED current_state
  /\ step' = step + 1
  /\ last' = [op |-> "error", state |-> current_state, raised |-> FALSE,
              raw |-> EmptyStr]
  /\ iterations' = iterations + 1
  /\ UNCHANGED <<cfgVars, compVars, max_steps, current_input,
                 last_stable_state_name, output, result,
                 initial_context_ledger, log, compiles, compileRaised,
                 ledgerVars, socketHist,
                 toolVars, extVars>>

\* State.reset_retries()
reset_retries(counters, s) == [counters EXCEPT ![s] = max_retries[s]]

\* Mutant of PrepareContext: the counter is reset on every entry of a
\* Stable state.
PrepareContext_AlwaysResets(cs, stable) ==
  [last_stable_state_name |-> IF stable THEN cs ELSE last_stable_state_name,
   retries_counter |-> IF stable THEN reset_retries(retries_counter, cs)
                       ELSE retries_counter]

\* "Prepare context" of run(): a Stable state other than the last stable
\* one has its retries reset; a Stable state becomes the last stable one.
PrepareContext(cs, stable) ==
  [last_stable_state_name |-> IF stable THEN cs ELSE last_stable_state_name,
   retries_counter |-> IF stable /\ cs # last_stable_state_name
                         THEN reset_retries(retries_counter, cs)
                         ELSE retries_counter]

\* A loop iteration that executes the current state and takes the
\* transition: "prepare context", "execute state" and "transition".
StepExecute ==
  /\ pc = "loop" /\ step < max_steps
  /\ TypeOf(current_state) \notin {"END", "ERROR"}
  /\ LET cs == current_state
         stable == TypeOf(cs) = "STABLE"
         prep == PrepareContext(cs, stable)
     IN /\ last_stable_state_name' = prep.last_stable_state_name
        /\ retries_counter' = prep.retries_counter
        /\ \E e \in Execute(cs, current_input) :
             LET res == IF e.raised
                          THEN [next_state |-> Str("ERROR"), output |-> e.output]
                          ELSE [next_state |-> e.next_state, output |-> e.output]
                 t == transition(cs, res)
             IN /\ output' = res.output
                /\ result' = [next_state |-> t.next_state, output |-> res.output]
                /\ current_state' = t.current_state
                /\ current_input' = t.current_input
                /\ log' = Append(log, [state |-> cs, raised |-> e.raised,
                                        to |-> t.current_state,
                                        input |-> current_input,
                                        output |-> res.output])
                /\ last' = [op |-> "execute", state |-> cs, raised |-> e.raised,
                            raw |-> res.next_state]
                /\ IF HasAgent(cs)
                     THEN LET x == execute_agent(cs, e.committed,
                                                 Out(cs, ExecCount(cs) + 1))
                          IN /\ sockets' = [sockets EXCEPT ![cs] = x.sockets]
                             /\ latest_messages' = x.latest_messages
                             /\ agent_history' =
                                  [agent_history EXCEPT ![cs] = x.history]
                             /\ commits' =
                                  [commits EXCEPT ![cs] = @ + x.commits]
                     ELSE UNCHANGED <<sockets, ledgerVars>>
  /\ step' = step + 1
  /\ iterations' = iterations + 1
  /\ UNCHANGED <<cfgVars, sysprompts, target_state, initial_state, pc,
                 max_steps, final_output, initial_context_ledger, compiles,
                 compileRaised, socketHist,
                 toolVars, extVars>>

\* Mutant of LoopExhausted: after the loop, run returns the latest output.
LoopExhausted_ReturnsOutput ==
  /\ pc = "loop" /\ step = max_steps
  /\ pc' = "done"
  /\ final_output' = output
  /\ last' = [op |-> "exhausted", state |-> current_state, raised |-> FALSE,
              raw |-> EmptyStr]
  /\ UNCHANGED <<cfgVars, compVars, retries_counter, max_steps, step,
                 current_state, current_input, last_stable_state_name, output,
                 result, initial_context_ledger, log, iterations, compiles,
                 compileRaised, ledgerVars, socketHist,
                 toolVars, extVars>>

\* The for loop has run max_steps iterations: run returns final_output.
LoopExhausted ==
  /\ pc = "loop" /\ step = max_steps
  /\ pc' = "done"
  /\ last' = [op |-> "exhausted", state |-> current_state, raised |-> FALSE,
              raw |-> EmptyStr]
  /\ UNCHANGED <<cfgVars, compVars, retries_counter, max_steps, step,
                 current_state, current_input, last_stable_state_name, output,
                 final_output, result, initial_context_ledger, log,
                 iterations, compiles, compileRaised, ledgerVars, socketHist,
                 toolVars, extVars>>

\* ------------------------------------------------------ the tool-call loop
\* The tools that may be registered, and the names a model may ask for.
Registry == {"Calc.add"}
CallNames == Registry \cup {"Calculator.ad"}
NoAligner == "None"
NoMatch == "null"

\* An agent without tools, aligner, schema or model.
NoTools ==
  [tool_registry |-> {}, tool_aligner |-> NoAligner, schema_prompt |-> FALSE,
   model_loaded |-> FALSE]

AgentConfigs ==
  [tool_registry : {{}, Registry},
   tool_aligner : {NoAligner, "ToolAligner"},
   schema_prompt : BOOLEAN,
   model_loaded : BOOLEAN]

Message(role, content, tool_calls, tool_name) ==
  [role |-> role, content |-> content, tool_calls |-> tool_calls,
   tool_name |-> tool_name]
SystemMessage(content) == Message("system", content, << >>, NoneVal)
HumanMessage(content) == Message("user", content, << >>, NoneVal)
AIMessage(content, tool_calls) == Message("assistant", content, tool_calls, NoneVal)
ToolMessage(tool_name, content) == Message("tool", content, << >>, tool_name)
NoMessage == Message("none", << >>, << >>, NoneVal)

\* The list _invoke_model assembles before its loop.
BasePrompts(cfg) ==
  <<SystemMessage(<<"sys_prompt">>)>>
    \o (IF cfg.schema_prompt THEN <<SystemMessage(<<"schema">>)>> ELSE << >>)
    \o <<AIMessage(<<"history">>, << >>), AIMessage(<<"latest">>, << >>),
         HumanMessage(<<"task">>)>>

\* What the surroundings do while one tool call is handled: how the tool
\* behaves when it is invoked, and what the aligner answers: a registered
\* name (its pools hold no other) or no match; with no tool registered its
\* tools pool holds no phrase and the match raises.
AlignRaises == "TypeError"
Envs ==
  [behaviour : {"ok", "KeyError", "Error"},
   align : IF agent_config.tool_registry = {} THEN {AlignRaises}
           ELSE agent_config.tool_registry \cup {NoMatch}]

\* The surroundings of the i-th tool call of a turn; the result of a tool
\* is marked with i, so that the order of the results is observable.
Nth(env, i) == [behaviour |-> env.behaviour, align |-> env.align, nth |-> i]

CallSeqs ==
  UNION {[1..k -> CallNames] : k \in 0..MaxToolCalls}

\* _execute_single_tool: get_tool_from_registry raises KeyError for a name
\* that is not registered; else the tool is invoked and may raise.
execute_single_tool(name, env) ==
  IF name \notin agent_config.tool_registry
    THEN [raised |-> "KeyError", invoked |-> << >>, message |-> NoMessage]
  ELSE IF env.behaviour = "ok"
    THEN [raised |-> "no", invoked |-> <<name>>,
          message |-> ToolMessage(name, <<"result", name, ToString(env.nth)>>)]
  ELSE [raised |-> env.behaviour, invoked |-> <<name>>,
        message |-> NoMessage]

\* _attempt_tool_alignment: None without an aligner or a match; what
\* align_tool_call raises propagates; else the aligned call is executed and
\* its exceptions propagate.
attempt_tool_alignment(name, env) ==
  IF agent_config.tool_aligner = NoAligner
    THEN [found |-> FALSE, raised |-> "no", invoked |-> << >>,
          message |-> NoMessage, aligned |-> "n/a"]
  ELSE IF env.align = AlignRaises
    THEN [found |-> FALSE, raised |-> AlignRaises, invoked |-> << >>,
          message |-> NoMessage, aligned |-> AlignRaises]
  ELSE IF env.align = NoMatch
    THEN [found |-> FALSE, raised |-> "no", invoked |-> << >>,
          message |-> NoMessage, aligned |-> NoMatch]
  ELSE LET r == execute_single_tool(env.align, env) IN
       [found |-> r.raised = "no", raised |-> r.raised, invoked |-> r.invoked,
        message |-> r.message, aligned |-> env.align]

ToolEntry(name, aligned, invoked, outcome) ==
  [name |-> name, aligned |-> aligned, invoked |-> invoked,
   outcome |-> outcome]

\* Mutant of handle_tool_call: the result of an aligned call is not kept.
handle_tool_call_DropsAligned(name, env) ==
  LET r == execute_single_tool(name, env) IN
  IF r.raised = "no"
    THEN [raised |-> "no", messages |-> <<r.message>>,
          entry |-> ToolEntry(name, "n/a", r.invoked, "result")]
  ELSE IF r.raised = "KeyError"
    THEN LET a == attempt_tool_alignment(name, env) IN
         IF a.raised # "no"
           THEN [raised |-> a.raised, messages |-> << >>,
                 entry |-> ToolEntry(name, a.aligned, r.invoked \o a.invoked,
                                     "error")]
         ELSE IF a.found
           THEN [raised |-> "no", messages |-> << >>,
                 entry |-> ToolEntry(name, a.aligned, r.invoked \o a.invoked,
                                     "result")]
         ELSE [raised |-> "ToolNotFound", messages |-> << >>,
               entry |-> ToolEntry(name, a.aligned, r.invoked, "tool_not_found")]
  ELSE [raised |-> r.raised, messages |-> << >>,
        entry |-> ToolEntry(name, "n/a", r.invoked, "error")]

\* Mutant of handle_tool_call: a call that cannot be resolved is passed over.
handle_tool_call_SkipsUnknown(name, env) ==
  LET r == execute_single_tool(name, env) IN
  IF r.raised = "no"
    THEN [raised |-> "no", messages |-> <<r.message>>,
          entry |-> ToolEntry(name, "n/a", r.invoked, "result")]
  ELSE IF r.raised = "KeyError"
    THEN LET a == attempt_tool_alignment(name, env) IN
         IF a.raised # "no"
           THEN [raised |-> a.raised, messages |-> << >>,
                 entry |-> ToolEntry(name, a.aligned, r.invoked \o a.invoked,
                                     "error")]
         ELSE IF a.found
           THEN [raised |-> "no", messages |-> <<a.message>>,
                 entry |-> ToolEntry(name, a.aligned, r.invoked \o a.invoked,
                                     "result")]
         ELSE [raised |-> "no", messages |-> << >>,
               entry |-> ToolEntry(name, a.aligned, r.invoked, "skipped")]
  ELSE [raised |-> r.raised, messages |-> << >>,
        entry |-> ToolEntry(name, "n/a", r.invoked, "error")]

\* The body of the loop of handle_tool_calls for one tool call: the try,
\* the KeyError handler with the alignment, and the handler of the rest.
handle_tool_call(name, env) ==
  LET r == execute_single_tool(name, env) IN
  IF r.raised = "no"
    THEN [raised |-> "no", messages |-> <<r.message>>,
          entry |-> ToolEntry(name, "n/a", r.invoked, "result")]
  ELSE IF r.raised = "KeyError"
    THEN LET a == attempt_tool_alignment(name, env) IN
         IF a.raised # "no"
           THEN [raised |-> a.raised, messages |-> << >>,
                 entry |-> ToolEntry(name, a.aligned, r.invoked \o a.invoked,
                                     "error")]
         ELSE IF a.found
           THEN [raised |-> "no", messages |-> <<a.message>>,
                 entry |-> ToolEntry(name, a.aligned, r.invoked \o a.invoked,
                                     "result")]
         ELSE [raised |-> "ToolNotFound", messages |-> << >>,
               entry |-> ToolEntry(name, a.aligned, r.invoked, "tool_not_found")]
  ELSE [raised |-> r.raised, messages |-> << >>,
        entry |-> ToolEntry(name, "n/a", r.invoked, "error")]

\* Mutant of handle_tool_calls: each result is put before the earlier ones.
RECURSIVE handle_tool_calls_NewestFirst(_, _, _, _)
handle_tool_calls_NewestFirst(calls, i, envs, acc) ==
  IF i > Len(calls) THEN acc
  ELSE LET h == handle_tool_call(calls[i], Nth(envs[i], i)) IN
    IF h.raised # "no"
      THEN [acc EXCEPT !.raised = h.raised, !.trace = Append(@, h.entry)]
      ELSE handle_tool_calls_NewestFirst(calls, i + 1, envs,
             [acc EXCEPT !.results = h.messages \o @,
                         !.trace = Append(@, h.entry)])

\* handle_tool_calls(message), from call i on: the results so far, what was
\* done for each call, and the exception that ended it, if any.
RECURSIVE handle_tool_calls(_, _, _, _)
handle_tool_calls(calls, i, envs, acc) ==
  IF i > Len(calls) THEN acc
  ELSE LET h == handle_tool_call(calls[i], Nth(envs[i], i)) IN
    IF h.raised # "no"
      THEN [acc EXCEPT !.raised = h.raised, !.trace = Append(@, h.entry)]
      ELSE handle_tool_calls(calls, i + 1, envs,
             [acc EXCEPT !.results = @ \o h.messages,
                         !.trace = Append(@, h.entry)])

\* ChatOllama: induced tool-call mode and the tools bind_tools has bound,
\* which are the tools of the registry.
ToolSchema(tool) == IF tool = "Calc.add" THEN "schema of Calc.add" ELSE "schema"
BoundTools(registry) == IF "Calc.add" \in registry THEN <<"Calc.add">> ELSE << >>
NoChatModel == [induced_tool |-> FALSE, tools |-> << >>]
NotSent == [messages |-> << >>, tools |-> None]

\* BaseChatModel.create_tool_instruction
create_tool_instruction(model) ==
  <<"tool_call_instructon">> \o
    [i \in 1..Len(model.tools) |-> ToolSchema(model.tools[i])]

\* ChatOllama.__convert_messages
convert_messages(messages) ==
  [i \in 1..Len(messages) |->
     [role |-> messages[i].role, content |-> messages[i].content,
      tool_name |-> messages[i].tool_name]]

\* ChatOllama.invoke up to the answer of the client: the caller's list
\* after the call, and what client.chat was given.
invoke(model, messages) ==
  LET converted == convert_messages(messages) IN
  IF model.induced_tool
    THEN [messages |-> Append(messages,
                              SystemMessage(create_tool_instruction(model))),
          sent |-> [messages |-> converted, tools |-> None]]
    ELSE [messages |-> messages,
          sent |-> [messages |-> converted, tools |-> Some(model.tools)]]

NoResponse == [content |-> << >>, tool_calls |-> << >>]

InitToolLocals ==
  /\ prompts = << >>
  /\ iteration = 0
  /\ finished = FALSE
  /\ response = NoResponse
  /\ loop_pc = "idle"
  /\ invocations = 0
  /\ requested = 0
  /\ tool_trace = << >>
  /\ chat_sent = NotSent

nonToolVars ==
  <<cfgVars, compVars, runVars, histVars, retries_counter, ledgerVars,
    socketHist, extVars>>

\* _invoke_model up to its loop.
InvokeModel ==
  /\ loop_pc = "idle"
  /\ IF ~agent_config.model_loaded
       THEN /\ loop_pc' = "returned"
            /\ response' = [content |-> <<"Error: No model loaded.">>,
                            tool_calls |-> << >>]
            /\ UNCHANGED <<prompts, iteration, finished>>
       ELSE /\ prompts' = BasePrompts(agent_config)
            /\ iteration' = 0
            /\ finished' = FALSE
            /\ loop_pc' = "loop"
            /\ UNCHANGED response
  /\ UNCHANGED <<nonToolVars, agent_config, invocations, requested, tool_trace,
                 chat_model, chat_sent>>

\* One iteration of the loop in which model.invoke raises.
ModelRaises ==
  /\ loop_pc = "loop" /\ ~finished
  /\ iteration' = iteration + 1
  /\ invocations' = invocations + 1
  /\ loop_pc' = "raised"
  /\ prompts' = invoke(chat_model, prompts).messages
  /\ chat_sent' = invoke(chat_model, prompts).sent
  /\ UNCHANGED <<nonToolVars, agent_config, finished, response, requested,
                 tool_trace, chat_model>>

\* One iteration of the loop: the model answers, the answer is appended as
\* an assistant message, its tool calls are handled and their results
\* appended, or, without tool calls, the loop finishes and the content is
\* returned.
ModelTurn ==
  /\ loop_pc = "loop" /\ ~finished
  /\ \E calls \in CallSeqs : \E envs \in [1..Len(calls) -> Envs] :
       /\ Len(calls) > 0 => iteration < MaxRounds
       /\ iteration' = iteration + 1
       /\ invocations' = invocations + 1
       /\ response' = [content |-> <<"reply", ToString(iteration + 1)>>,
                       tool_calls |-> calls]
       /\ requested' = requested + Len(calls)
       /\ chat_sent' = invoke(chat_model, prompts).sent
       /\ LET ai_message == AIMessage(<<"reply", ToString(iteration + 1)>>, calls)
              h == handle_tool_calls(calls, 1, envs,
                     [results |-> << >>, trace |-> << >>, raised |-> "no"])
          IN IF Len(calls) = 0
               THEN /\ prompts' = Append(invoke(chat_model, prompts).messages, ai_message)
                    /\ finished' = TRUE
                    /\ loop_pc' = "returned"
                    /\ UNCHANGED tool_trace
             ELSE IF h.raised # "no"
               THEN /\ prompts' = Append(invoke(chat_model, prompts).messages, ai_message)
                    /\ loop_pc' = "raised"
                    /\ tool_trace' = tool_trace \o h.trace
                    /\ UNCHANGED finished
             ELSE /\ prompts' = Append(invoke(chat_model, prompts).messages, ai_message) \o h.results
                  /\ tool_trace' = tool_trace \o h.trace
                  /\ UNCHANGED <<finished, loop_pc>>
  /\ UNCHANGED <<nonToolVars, agent_config, chat_model>>

\* -------------------------------------------------------------- the aligner
\* The tools an agent may register with the aligner, with Tool.arg_names,
\* and the names and argument keys a model may send.
AlignTools == {"Calc.add", "Clock.now"}
ArgNames(tool) == IF tool = "Calc.add" THEN <<"a", "b">> ELSE << >>
NameQueries == AlignTools \cup {"Calculator.ad"}
KeyQueries == {"a", "x"}
ArgPhrases == {"a", "b"}

\* A dict keeps insertion order: a sequence of <<key, value>> with distinct
\* keys.
DictKeys(d) == [i \in 1..Len(d) |-> d[i][1]]
DictHas(d, k) == \E i \in 1..Len(d) : d[i][1] = k
DictGet(d, k) == d[CHOOSE i \in 1..Len(d) : d[i][1] = k][2]
DictSet(d, k, v) ==
  IF DictHas(d, k)
    THEN [i \in 1..Len(d) |-> IF d[i][1] = k THEN <<k, v>> ELSE d[i]]
    ELSE Append(d, <<k, v>>)

ValueOf(k) == <<"value of", k>>
ArgDicts ==
  {<< >>, <<<<"a", ValueOf("a")>>>>, <<<<"x", ValueOf("x")>>>>,
   <<<<"a", ValueOf("a")>>, <<"x", ValueOf("x")>>>>,
   <<<<"x", ValueOf("x")>>, <<"a", ValueOf("a")>>>>}

ToolCall(name, args) == [name |-> name, args |-> args]
ToolCalls == {ToolCall(n, d) : n \in NameQueries, d \in ArgDicts}

\* What fuzz.ratio (0..100) and the dot product of the normalized
\* embeddings (in hundredths) give for a query and a phrase that differ:
\* the two are functions of the strings, fixed for a run.
Likeness ==
  {[lex |-> 90, sem |-> 80], [lex |-> 82, sem |-> 20],
   [lex |-> 30, sem |-> 68], [lex |-> 30, sem |-> 20]}
SimilarityPairs ==
  {<<"Calculator.ad", "Calc.add">>} \cup ({"x"} \X ArgPhrases)
Unlike == [lex |-> 0, sem |-> 0]
lexical_score(q, p) ==
  IF q = p THEN 100
  ELSE IF <<q, p>> \in SimilarityPairs THEN similarity[<<q, p>>].lex
  ELSE Unlike.lex
semantic_score(q, p) ==
  IF q = p THEN 100
  ELSE IF <<q, p>> \in SimilarityPairs THEN similarity[<<q, p>>].sem
  ELSE Unlike.sem

\* The thresholds a configuration file may give: lexical on the scale of
\* fuzz.ratio, semantic in hundredths.  The first is what
\* ToolAlignerFactory.create uses for the keys that are left out.
AlignerConfigs ==
  {[tool_name_lexical_threshold |-> 85, tool_name_semantic_threshold |-> 70,
    tool_args_lexical_threshold |-> 80, tool_args_semantic_threshold |-> 65],
   [tool_name_lexical_threshold |-> 95, tool_name_semantic_threshold |-> 85,
    tool_args_lexical_threshold |-> 85, tool_args_semantic_threshold |-> 75]}

\* AlignerPool.__init__
AlignerPool(lexical_threshold, semantic_threshold) ==
  [vectors_list |-> << >>, phrases |-> << >>, vector_matrix |-> None,
   is_dirty |-> FALSE, lexical_threshold |-> lexical_threshold,
   semantic_threshold |-> semantic_threshold]

Embed(phrase) == <<"embedding", phrase>>

\* AlignerPool.add
pool_add(pool, phrase) ==
  [pool EXCEPT !.phrases = Append(@, phrase),
               !.vectors_list = Append(@, Embed(phrase)),
               !.is_dirty = TRUE]

\* AlignerPool.__rebuild_matrix: np.array() without an argument raises.
rebuild_matrix(pool) ==
  IF pool.vectors_list # << >>
    THEN [raised |-> "no",
          pool |-> [pool EXCEPT !.vector_matrix = Some(pool.vectors_list),
                                !.is_dirty = FALSE]]
    ELSE [raised |-> "TypeError", pool |-> pool]

\* The first index of seq whose score is the highest: what
\* process.extractOne and np.argmax pick.
ArgMax(seq, score(_)) ==
  CHOOSE i \in 1..Len(seq) :
    /\ \A j \in 1..Len(seq) : score(seq[j]) <= score(seq[i])
    /\ \A j \in 1..(i - 1) : score(seq[j]) < score(seq[i])

\* process.extractOne(query, phrases, scorer=fuzz.ratio): None for no
\* choices, else the best choice and its score.
extractOne(query, phrases) ==
  IF phrases = << >> THEN None
  ELSE Some(LET Score(p) == lexical_score(query, p)
           i == ArgMax(phrases, Score)
       IN [matched_str |-> phrases[i], score |-> Score(phrases[i])])

MatchResult(returned, raised, pool) ==
  [returned |-> returned, raised |-> raised, pool |-> pool]

\* The rest of AlignerPool.match after the lexical stage: len() of the
\* matrix, which is None until the first rebuild, raises TypeError.
match_semantic(pool, query) ==
  LET rb == IF pool.is_dirty THEN rebuild_matrix(pool)
            ELSE [raised |-> "no", pool |-> pool]
      p == rb.pool
  IN IF rb.raised # "no" THEN MatchResult(None, rb.raised, p)
     ELSE IF ~p.vector_matrix.some THEN MatchResult(None, "TypeError", p)
     ELSE IF Len(p.vector_matrix.value) = 0 THEN MatchResult(None, "no", p)
     ELSE LET Score(ph) == semantic_score(query, ph)
              best_match_idx == ArgMax(p.phrases, Score)
              best_score == Score(p.phrases[best_match_idx])
          IN IF best_score >= p.semantic_threshold
               THEN MatchResult(Some(p.phrases[best_match_idx]), "no", p)
               ELSE MatchResult(None, "no", p)

\* AlignerPool.match
match(pool, query) ==
  IF \E i \in 1..Len(pool.phrases) : pool.phrases[i] = query
    THEN MatchResult(Some(query), "no", pool)
  ELSE LET match_tuple == extractOne(query, pool.phrases) IN
    IF match_tuple.some /\ match_tuple.value.score >= pool.lexical_threshold
      THEN MatchResult(Some(match_tuple.value.matched_str), "no", pool)
      ELSE match_semantic(pool, query)

\* ToolAligner: the pools of Aligner and the thresholds of the args pools.
ToolsPool == <<"tools">>
ArgsPool(name) == <<name, "#args">>
NoConfig ==
  [tool_name_lexical_threshold |-> 0, tool_name_semantic_threshold |-> 0,
   tool_args_lexical_threshold |-> 0, tool_args_semantic_threshold |-> 0]
NotCreated ==
  [created |-> FALSE, config |-> NoConfig, pools |-> << >>,
   tool_args_lexical_threshold |-> 0, tool_args_semantic_threshold |-> 0]

\* Aligner.create_pool
create_pool(al, name, lexical_threshold, semantic_threshold) ==
  IF name \in DOMAIN al.pools
    THEN [raised |-> "RuntimeError", aligner |-> al]
    ELSE [raised |-> "no",
          aligner |-> [al EXCEPT !.pools =
            (name :> AlignerPool(lexical_threshold, semantic_threshold)) @@ @]]

\* ToolAlignerFactory.create and ToolAligner.__init__
ToolAligner(config) ==
  [created |-> TRUE, config |-> config,
   pools |-> (ToolsPool :> AlignerPool(config.tool_name_lexical_threshold,
                                       config.tool_name_semantic_threshold)),
   tool_args_lexical_threshold |-> 100 * config.tool_args_lexical_threshold,
   tool_args_semantic_threshold |-> config.tool_args_semantic_threshold]

RECURSIVE AddAll(_, _, _)
AddAll(pool, args, i) ==
  IF i > Len(args) THEN pool ELSE AddAll(pool_add(pool, args[i]), args, i + 1)

\* ToolAligner.add_tool
add_tool(al, name, args) ==
  LET al1 == [al EXCEPT !.pools[ToolsPool] = pool_add(@, name)]
      c == create_pool(al1, ArgsPool(name), al.tool_args_lexical_threshold,
                       al.tool_args_semantic_threshold)
  IN IF c.raised # "no" THEN c
     ELSE [raised |-> "no",
           aligner |-> [c.aligner EXCEPT !.pools[ArgsPool(name)] =
                          AddAll(@, args, 1)]]

AlignResult(returned, raised, al) ==
  [returned |-> returned, raised |-> raised, aligner |-> al]

\* The for loop of align_tool_call over toolcall.args.keys(), from key i on.
RECURSIVE align_args(_, _, _, _, _)
align_args(al, name, args, i, corrected_args) ==
  IF i > Len(args) THEN AlignResult(Some(ToolCall(name, corrected_args)), "no", al)
  ELSE LET m == match(al.pools[ArgsPool(name)], args[i][1])
           al1 == [al EXCEPT !.pools[ArgsPool(name)] = m.pool]
       IN IF m.raised # "no" THEN AlignResult(None, m.raised, al1)
          ELSE IF ~m.returned.some THEN AlignResult(None, "no", al1)
          ELSE align_args(al1, name, args, i + 1,
                          DictSet(corrected_args, m.returned.value, args[i][2]))

\* ToolAligner.align_tool_call
align_tool_call(al, toolcall) ==
  LET m == match(al.pools[ToolsPool], toolcall.name)
      al1 == [al EXCEPT !.pools[ToolsPool] = m.pool]
  IN IF m.raised # "no" THEN AlignResult(None, m.raised, al1)
     ELSE IF ~m.returned.some THEN AlignResult(None, "no", al1)
     ELSE IF ArgsPool(m.returned.value) \notin DOMAIN al1.pools
       THEN AlignResult(None, "RuntimeError", al1)
     ELSE align_args(al1, m.returned.value, toolcall.args, 1, << >>)

NoAlignOp ==
  [op |-> "none", pool |-> << >>, query |-> "", toolcall |-> ToolCall("", << >>),
   returned |-> None, raised |-> "no"]
AlignOp(op, pool, query, toolcall, returned, raised) ==
  [op |-> op, pool |-> pool, query |-> query, toolcall |-> toolcall,
   returned |-> returned, raised |-> raised]

InitAlignerIdle ==
  /\ aligner = NotCreated
  /\ similarity = [p \in SimilarityPairs |-> Unlike]
  /\ align_io = NoAlignOp

\* agent registration: tool_aligner.add_tool(tool.meta.name, tool.arg_names)
AddTool(name) ==
  /\ aligner.created
  /\ Len(aligner.pools[ToolsPool].phrases) < MaxAddTools
  /\ LET r == add_tool(aligner, name, ArgNames(name)) IN
       /\ aligner' = r.aligner
       /\ align_io' = AlignOp("add_tool", ArgsPool(name), name,
                              ToolCall("", << >>), None, r.raised)
  /\ UNCHANGED <<nonAlignVars, similarity>>

\* Aligner.match(pool_name, query)
Match(pool_name, query) ==
  /\ aligner.created
  /\ pool_name \in DOMAIN aligner.pools
  /\ LET m == match(aligner.pools[pool_name], query) IN
       /\ aligner' = [aligner EXCEPT !.pools[pool_name] = m.pool]
       /\ align_io' = AlignOp("match", pool_name, query, ToolCall("", << >>),
                              m.returned, m.raised)
  /\ UNCHANGED <<nonAlignVars, similarity>>

\* tool_aligner.align_tool_call(ToolCall(name, args))
AlignToolCall(toolcall) ==
  /\ aligner.created
  /\ LET r == align_tool_call(aligner, toolcall) IN
       /\ aligner' = r.aligner
       /\ align_io' = AlignOp("align_tool_call", ToolsPool, toolcall.name,
                              toolcall, r.returned, r.raised)
  /\ UNCHANGED <<nonAlignVars, similarity>>

\* ------------------------------------------------ the command-line monitor
\* Threads: the caller and, for each background process, the two readers
\* and the waiter that monitor_cmd starts.  Free marks a lock nobody holds.
Caller == <<0, "caller">>
Free == <<0, "free">>
Reader(p, stream) == <<p, stream>>
Waiter(p) == <<p, "wait">>
Streams == {"out", "err"}
ThreadIds ==
  {Caller} \cup {<<p, k>> : p \in 1..MaxProcs, k \in {"out", "err", "wait"}}

\* The i-th line the child writes to a stream, and a literal piece of text.
Line(stream, i) == <<stream, i>>
Lit(text) == <<text, 0>>

ExitStatuses == {0, 1}
NoReturnCode == -2
InitialProcessCode == -1
NoTimeout == -1

\* subprocess.Popen: the child, its pipes and the returncode that wait()
\* sets.  The child writes at most limit[s] lines to stream s; stdin is
\* the number of chunks waiting in its stdin pipe.  A pipe holds at most
\* PipeCapacity lines or chunks.
Popen(limit) ==
  [alive |-> TRUE, status |-> NoReturnCode, returncode |-> NoReturnCode,
   limit |-> limit,
   written |-> [s \in Streams |-> 0],
   pipe |-> [s \in Streams |-> << >>],
   stdin |-> 0]

\* CmdLineMonitor.__init__ and the lock the Monitor decorator adds.
CmdLineMonitor ==
  [_stdout |-> << >>, _stderr |-> << >>, _stdout_ptr |-> 0, _stderr_ptr |-> 0,
   _process_finished |-> FALSE, _process_code |-> InitialProcessCode,
   _lock |-> Free]

\* A call of a method of a monitor by a thread: waiting for the lock
\* ("call"), inside the method ("in", "in2"), or back ("returned").
NoCall ==
  [method |-> "none", stage |-> "none", monitor |-> 0, arg |-> << >>,
   result |-> << >>, ret |-> << >>]
Call(method, m, arg) ==
  [method |-> method, stage |-> "call", monitor |-> m, arg |-> arg,
   result |-> << >>, ret |-> << >>]
Inside(c) == c.stage \in {"in", "in2"}

\* Mutant of lock_acquire: the wrapper calls the method without the lock.
lock_acquire_Unguarded(mon, t) ==
  [acquired |-> TRUE, monitor |-> [mon EXCEPT !._lock = t]]

\* The wrapper of the Monitor decorator, "with self._lock": the thread goes
\* on when the lock is free, and holds it.
lock_acquire(mon, t) ==
  [acquired |-> mon._lock = Free, monitor |-> [mon EXCEPT !._lock = t]]

\* Leaving "with self._lock".
lock_release(mon) == [mon EXCEPT !._lock = Free]

Returned(c, ret) == [c EXCEPT !.stage = "returned", !.ret = ret]

\* Mutant of set_finished: the code is stored, the flag is left alone.
set_finished_CodeOnly(mon, code) ==
  [mon EXCEPT !._process_code = code]

\* CmdLineMonitor.set_finished(code)
set_finished(mon, code) ==
  [mon EXCEPT !._process_finished = TRUE, !._process_code = code]

\* Mutant of method_step: get_stdout and get_stderr leave the cursor one
\* line behind.
method_step_CursorBehind(mon, c) ==
  CASE c.method = "update_stdout" ->
         [monitor |-> [mon EXCEPT !._stdout = Append(@, c.arg[1])],
          call |-> Returned(c, << >>)]
    [] c.method = "update_stderr" ->
         [monitor |-> [mon EXCEPT !._stderr = Append(@, c.arg[1])],
          call |-> Returned(c, << >>)]
    [] c.method = "is_new_stdout" ->
         [monitor |-> mon,
          call |-> Returned(c, <<mon._stdout_ptr # Len(mon._stdout)>>)]
    [] c.method = "is_new_stderr" ->
         [monitor |-> mon,
          call |-> Returned(c, <<mon._stderr_ptr # Len(mon._stderr)>>)]
    [] c.method = "get_stdout" /\ c.stage = "in" ->
         [monitor |-> mon,
          call |-> [c EXCEPT !.stage = "in2",
                      !.result = SubSeq(mon._stdout, mon._stdout_ptr + 1,
                                        Len(mon._stdout))]]
    [] c.method = "get_stdout" /\ c.stage = "in2" ->
         [monitor |-> [mon EXCEPT !._stdout_ptr =
                         IF Len(mon._stdout) > 0 THEN Len(mon._stdout) - 1 ELSE 0],
          call |-> Returned(c, c.result)]
    [] c.method = "get_stderr" /\ c.stage = "in" ->
         [monitor |-> mon,
          call |-> [c EXCEPT !.stage = "in2",
                      !.result = SubSeq(mon._stderr, mon._stderr_ptr + 1,
                                        Len(mon._stderr))]]
    [] c.method = "get_stderr" /\ c.stage = "in2" ->
         [monitor |-> [mon EXCEPT !._stderr_ptr =
                         IF Len(mon._stderr) > 0 THEN Len(mon._stderr) - 1 ELSE 0],
          call |-> Returned(c, c.result)]
    [] c.method = "is_running" ->
         [monitor |-> mon, call |-> Returned(c, <<mon._process_finished>>)]
    [] c.method = "set_finished" ->
         [monitor |-> set_finished(mon, c.arg[1]),
          call |-> Returned(c, << >>)]
    [] OTHER ->
         [monitor |-> mon, call |-> Returned(c, <<mon._process_code>>)]

\* One step of the body of a method of CmdLineMonitor.  get_stdout and
\* get_stderr read the length of the list twice: for the range of their
\* loop, and again for the new cursor.
method_step(mon, c) ==
  CASE c.method = "update_stdout" ->
         [monitor |-> [mon EXCEPT !._stdout = Append(@, c.arg[1])],
          call |-> Returned(c, << >>)]
    [] c.method = "update_stderr" ->
         [monitor |-> [mon EXCEPT !._stderr = Append(@, c.arg[1])],
          call |-> Returned(c, << >>)]
    [] c.method = "is_new_stdout" ->
         [monitor |-> mon,
          call |-> Returned(c, <<mon._stdout_ptr # Len(mon._stdout)>>)]
    [] c.method = "is_new_stderr" ->
         [monitor |-> mon,
          call |-> Returned(c, <<mon._stderr_ptr # Len(mon._stderr)>>)]
    [] c.method = "get_stdout" /\ c.stage = "in" ->
         [monitor |-> mon,
          call |-> [c EXCEPT !.stage = "in2",
                      !.result = SubSeq(mon._stdout, mon._stdout_ptr + 1,
                                        Len(mon._stdout))]]
    [] c.method = "get_stdout" /\ c.stage = "in2" ->
         [monitor |-> [mon EXCEPT !._stdout_ptr = Len(mon._stdout)],
          call |-> Returned(c, c.result)]
    [] c.method = "get_stderr" /\ c.stage = "in" ->
         [monitor |-> mon,
          call |-> [c EXCEPT !.stage = "in2",
                      !.result = SubSeq(mon._stderr, mon._stderr_ptr + 1,
                                        Len(mon._stderr))]]
    [] c.method = "get_stderr" /\ c.stage = "in2" ->
         [monitor |-> [mon EXCEPT !._stderr_ptr = Len(mon._stderr)],
          call |-> Returned(c, c.result)]
    [] c.method = "is_running" ->
         [monitor |-> mon, call |-> Returned(c, <<mon._process_finished>>)]
    [] c.method = "set_finished" ->
         [monitor |-> set_finished(mon, c.arg[1]),
          call |-> Returned(c, << >>)]
    [] OTHER ->
         [monitor |-> mon, call |-> Returned(c, <<mon._process_code>>)]

\* A thread: where it is in its own code, and the monitor method it calls.
Thread(at, call) == [pc |-> at, process |-> 0, call |-> call]

\* Where a worker goes on when its method has returned: a reader reads the
\* next line, the waiter is done.  The caller keeps what was returned.
AfterReturn(t, th, c) ==
  IF t = Caller THEN [th EXCEPT !.call = c]
  ELSE IF t[2] = "wait" THEN [th EXCEPT !.pc = "done", !.call = NoCall]
  ELSE [th EXCEPT !.pc = "readline", !.call = NoCall]

NoDrain == [out |-> << >>, err |-> << >>]

\* The wrapper takes the lock for the thread.
MethodEnter(t) ==
  /\ threads[t].call.stage = "call"
  /\ LET m == threads[t].call.monitor
         a == lock_acquire(monitors[m], t)
     IN /\ a.acquired
        /\ monitors' = [monitors EXCEPT ![m] = a.monitor]
        /\ threads' = [threads EXCEPT ![t].call.stage = "in"]
  /\ UNCHANGED <<nonCmdVars, procs, runner, workspace, tool_call, drained>>

\* The thread runs the next step of the method; with the last one it
\* leaves the wrapper and releases the lock.
MethodBody(t) ==
  /\ Inside(threads[t].call)
  /\ threads[t].call.method # "write_stdin"
  /\ LET m == threads[t].call.monitor
         r == method_step(monitors[m], threads[t].call)
         back == r.call.stage = "returned"
     IN /\ monitors' = [monitors EXCEPT ![m] =
                          IF back THEN lock_release(r.monitor) ELSE r.monitor]
        /\ threads' = [threads EXCEPT ![t] =
                         IF back THEN AfterReturn(t, @, r.call)
                         ELSE [@ EXCEPT !.call = r.call]]
        /\ drained' =
             IF back /\ r.call.method = "get_stdout"
               THEN [drained EXCEPT ![m].out = @ \o r.call.ret]
             ELSE IF back /\ r.call.method = "get_stderr"
               THEN [drained EXCEPT ![m].err = @ \o r.call.ret]
             ELSE drained
  /\ UNCHANGED <<nonCmdVars, procs, runner, workspace, tool_call>>

\* CmdLineMonitor.write_stdin(stdin), inside the wrapper and so with the
\* lock held: write and flush put the chunks of the text into the stdin
\* pipe of the process and block while the pipe is full; with the last
\* chunk the method returns and the lock is released.  Writing to the pipe
\* of a terminated child raises, which leaves "with self._lock" too.
write_stdin(t) ==
  /\ Inside(threads[t].call)
  /\ threads[t].call.method = "write_stdin"
  /\ LET c == threads[t].call
         m == c.monitor
     IN IF ~procs[m].alive
          THEN /\ monitors' = [monitors EXCEPT ![m] = lock_release(@)]
               /\ threads' = [threads EXCEPT ![t] =
                    AfterReturn(t, @, Returned(c, <<Lit("BrokenPipeError")>>))]
               /\ UNCHANGED procs
        ELSE IF c.arg[1] = 0
          THEN /\ monitors' = [monitors EXCEPT ![m] = lock_release(@)]
               /\ threads' = [threads EXCEPT ![t] =
                    AfterReturn(t, @, Returned(c, << >>))]
               /\ UNCHANGED procs
        ELSE /\ procs[m].stdin < PipeCapacity
             /\ procs' = [procs EXCEPT ![m].stdin = @ + 1]
             /\ threads' = [threads EXCEPT ![t].call.arg = <<c.arg[1] - 1>>]
             /\ UNCHANGED monitors
  /\ UNCHANGED <<nonCmdVars, runner, workspace, tool_call, drained>>

\* The child writes its next line to a stream; it blocks while the pipe is
\* full.
ChildWrites(p, s) ==
  /\ p \in 1..Len(procs)
  /\ procs[p].alive
  /\ procs[p].written[s] < procs[p].limit[s]
  /\ Len(procs[p].pipe[s]) < PipeCapacity
  /\ procs' = [procs EXCEPT ![p].written[s] = @ + 1,
                            ![p].pipe[s] = Append(@, Line(s, procs[p].written[s] + 1))]
  /\ UNCHANGED <<nonCmdVars, monitors, runner, threads, workspace, tool_call,
                 drained>>

\* The child terminates with an exit status; its ends of the pipes close.
ChildExits(p, status) ==
  /\ p \in 1..Len(procs)
  /\ procs[p].alive
  /\ procs' = [procs EXCEPT ![p].alive = FALSE, ![p].status = status]
  /\ UNCHANGED <<nonCmdVars, monitors, runner, threads, workspace, tool_call,
                 drained>>

\* _read_str: stream.readline() gives the next line, or nothing at the end
\* of the stream, and blocks on an empty pipe of a living child; a line is
\* handed to update_stdout or update_stderr of the monitor of the process.
ReadStr(p, s) ==
  /\ p \in 1..Len(procs)
  /\ threads[Reader(p, s)].pc = "readline"
  /\ IF procs[p].pipe[s] # << >>
       THEN /\ procs' = [procs EXCEPT ![p].pipe[s] = Tail(@)]
            /\ threads' = [threads EXCEPT ![Reader(p, s)] =
                 [@ EXCEPT !.pc = "output_call",
                           !.call = Call(IF s = "out" THEN "update_stdout"
                                         ELSE "update_stderr",
                                         p, <<Head(procs[p].pipe[s])>>)]]
       ELSE /\ ~procs[p].alive
            /\ threads' = [threads EXCEPT ![Reader(p, s)].pc = "done"]
            /\ UNCHANGED procs
  /\ UNCHANGED <<nonCmdVars, monitors, runner, workspace, tool_call, drained>>

\* wait_for_process starts: self._process is looked up when the thread
\* runs, and wait() is called on that process.
WaiterStarts(p) ==
  /\ p \in 1..Len(procs)
  /\ threads[Waiter(p)].pc = "start"
  /\ threads' = [threads EXCEPT ![Waiter(p)].pc = "wait",
                                ![Waiter(p)].process = runner._process]
  /\ UNCHANGED <<nonCmdVars, procs, monitors, runner, workspace, tool_call,
                 drained>>

\* wait() returns when that process has terminated, and sets its
\* returncode.
WaitReturns(p) ==
  /\ p \in 1..Len(procs)
  /\ threads[Waiter(p)].pc = "wait"
  /\ ~procs[threads[Waiter(p)].process].alive
  /\ procs' = [procs EXCEPT ![threads[Waiter(p)].process].returncode =
                 procs[threads[Waiter(p)].process].status]
  /\ threads' = [threads EXCEPT ![Waiter(p)].pc = "publish"]
  /\ UNCHANGED <<nonCmdVars, monitors, runner, workspace, tool_call, drained>>

\* self._monitor.set_finished(self._process.returncode): both attributes
\* of the runner are looked up now.
WaiterPublishes(p) ==
  /\ p \in 1..Len(procs)
  /\ threads[Waiter(p)].pc = "publish"
  /\ threads' = [threads EXCEPT ![Waiter(p)] =
       [@ EXCEPT !.pc = "set_finished",
                 !.call = Call("set_finished", runner._monitor,
                               <<procs[runner._process].returncode>>)]]
  /\ UNCHANGED <<nonCmdVars, procs, monitors, runner, workspace, tool_call,
                 drained>>

\* CmdLineRunner.monitor_cmd on a runner in state st: the process, its
\* monitor and the three threads; the readers are given the streams and
\* the monitor's methods, the waiter looks the runner's attributes up.
monitor_cmd(st, limit) ==
  LET p == Len(st.procs) + 1 IN
  [procs |-> Append(st.procs, Popen(limit)),
   monitors |-> Append(st.monitors, CmdLineMonitor),
   runner |-> [_process |-> p, _monitor |-> p],
   threads |-> [t \in ThreadIds |->
                  IF t[1] # p THEN st.threads[t]
                  ELSE IF t[2] = "wait" THEN Thread("start", NoCall)
                  ELSE Thread("readline", NoCall)],
   drained |-> Append(st.drained, NoDrain),
   monitor |-> p]

\* Before any background process: PythonWorkSpace.__init__.
IdleCmd ==
  [procs |-> << >>, monitors |-> << >>,
   runner |-> [_process |-> 0, _monitor |-> 0],
   threads |-> [t \in ThreadIds |->
                  IF t = Caller THEN Thread("idle", NoCall)
                  ELSE Thread("unborn", NoCall)],
   drained |-> << >>, monitor |-> 0]

NoToolCall ==
  [tool |-> "none", at |-> "idle", stdout |-> << >>, stderr |-> << >>,
   polls |-> 0, timeout |-> NoTimeout, min_time |-> 0, busy |-> FALSE,
   finished |-> FALSE, spawned |-> FALSE, returned |-> << >>,
   raised |-> "no"]

CmdIs(st) ==
  /\ procs = st.procs
  /\ monitors = st.monitors
  /\ runner = st.runner
  /\ threads = st.threads
  /\ drained = st.drained
  /\ workspace = [monitor |-> st.monitor]

CmdBecomes(st) ==
  /\ procs' = st.procs
  /\ monitors' = st.monitors
  /\ runner' = st.runner
  /\ threads' = st.threads
  /\ drained' = st.drained
  /\ workspace' = [monitor |-> st.monitor]

InitCmdIdle == CmdIs(IdleCmd) /\ tool_call = NoToolCall

CurrentCmd ==
  [procs |-> procs, monitors |-> monitors, runner |-> runner,
   threads |-> threads, drained |-> drained, monitor |-> workspace.monitor]

\* The caller calls a public method of the monitor of process 1.
CallerMethods ==
  {"is_new_stdout", "is_new_stderr", "get_stdout", "get_stderr",
   "is_running", "get_process_code"}
CallerCalls(method) ==
  /\ tool_call.tool = "none"
  /\ threads[Caller].call.stage \in {"none", "returned"}
  /\ threads' = [threads EXCEPT ![Caller].call = Call(method, 1, << >>)]
  /\ UNCHANGED <<nonCmdVars, procs, monitors, runner, workspace, tool_call,
                 drained>>

\* ------------------------------------------------------ PythonWorkSpace
\* The first script run in background writes up to MaxBgLines lines to
\* stdout, the later ones are silent; process p exits with status p.
BgScript(p) == [s \in Streams |-> IF s = "out" /\ p = 1 THEN MaxBgLines ELSE 0]
AnyAlive == \E p \in 1..Len(procs) : procs[p].alive
CallerBack == threads[Caller].call.stage = "returned"
CallerRet == threads[Caller].call.ret
CallerAsks(method) ==
  [threads EXCEPT ![Caller].call = Call(method, workspace.monitor, << >>)]
CallerLeaves == [threads EXCEPT ![Caller].call = NoCall]

ProcessStarted == <<Lit("Process started in background mode.")>>
AlreadyRunning == <<Lit("Error: A process is already running in background.")>>
NoAttachedProcess == <<Lit("Error: No attached process found.")>>
OutputReport(stdout, stderr) ==
  <<Lit("stdout: ")>> \o stdout \o <<Lit("\nstderr: ")>> \o stderr

ToolReturns(tc, returned) ==
  [tc EXCEPT !.at = "idle", !.returned = returned, !.raised = "no"]
ToolRaises(tc, exception) ==
  [tc EXCEPT !.at = "idle", !.returned = << >>, !.raised = exception]

\* run_script(script_path, args, run_background=True) up to the test of
\* its "if": without a monitor the process is started at once, else
\* self.monitor.is_running() is called.
RunScript ==
  /\ tool_call.at = "idle"
  /\ threads[Caller].call.stage \in {"none", "returned"}
  /\ Len(procs) < MaxProcs
  /\ LET tc == [NoToolCall EXCEPT !.tool = "run_script", !.busy = AnyAlive]
     IN IF workspace.monitor = 0
          THEN LET st == monitor_cmd(CurrentCmd, BgScript(Len(procs) + 1)) IN
               /\ CmdBecomes(st)
               /\ tool_call' = ToolReturns([tc EXCEPT !.spawned = TRUE],
                                           ProcessStarted)
          ELSE /\ threads' = CallerAsks("is_running")
               /\ tool_call' = [tc EXCEPT !.at = "l83"]
               /\ UNCHANGED <<procs, monitors, runner, workspace, drained>>
  /\ UNCHANGED nonCmdVars

\* run_script after is_running() has answered: the error message, or
\* monitor_cmd and the confirmation.
RunScriptDecides ==
  /\ tool_call.at = "l83" /\ CallerBack
  /\ IF CallerRet[1]
       THEN /\ tool_call' = ToolReturns(tool_call, AlreadyRunning)
            /\ threads' = CallerLeaves
            /\ UNCHANGED <<procs, monitors, runner, workspace, drained>>
       ELSE LET st == monitor_cmd([CurrentCmd EXCEPT !.threads = CallerLeaves],
                                  BgScript(Len(procs) + 1))
            IN /\ CmdBecomes(st)
               /\ tool_call' = ToolReturns([tool_call EXCEPT !.spawned = TRUE],
                                           ProcessStarted)
  /\ UNCHANGED nonCmdVars

\* monitor_process(timeout, min_time) up to its loop.
MonitorProcess(timeout, min_time) ==
  /\ tool_call.at = "idle"
  /\ threads[Caller].call.stage \in {"none", "returned"}
  /\ LET tc == [NoToolCall EXCEPT !.tool = "monitor_process",
                  !.timeout = timeout, !.min_time = min_time,
                  !.busy = AnyAlive,
                  !.finished = workspace.monitor # 0
                               /\ ~procs[workspace.monitor].alive]
     IN IF workspace.monitor = 0
          THEN /\ tool_call' = ToolReturns(tc, NoAttachedProcess)
               /\ threads' = CallerLeaves
          ELSE /\ tool_call' = [tc EXCEPT !.at = "l111"]
               /\ threads' = CallerAsks("is_new_stdout")
  /\ UNCHANGED <<nonCmdVars, procs, monitors, runner, workspace, drained>>

\* The loop of monitor_process, from the answer of one monitor method to
\* the call of the next, to the return or to the NameError of the
\* undefined output_buffer.  A sleep is one poll; the time elapsed is
\* counted in polls.
MonitorProcessStep ==
  /\ tool_call.tool = "monitor_process" /\ tool_call.at # "idle"
  /\ CallerBack
  /\ LET tc == tool_call
         elapsed_time == tc.polls
     IN CASE tc.at = "l111" ->
               IF CallerRet[1]
                 THEN /\ tool_call' = [tc EXCEPT !.at = "l112"]
                      /\ threads' = CallerAsks("get_stdout")
                 ELSE /\ tool_call' = [tc EXCEPT !.at = "l114"]
                      /\ threads' = CallerAsks("is_new_stderr")
          [] tc.at = "l112" ->
               /\ tool_call' = [tc EXCEPT !.at = "l114",
                                          !.stdout = @ \o CallerRet]
               /\ threads' = CallerAsks("is_new_stderr")
          [] tc.at = "l114" ->
               IF CallerRet[1]
                 THEN /\ tool_call' = [tc EXCEPT !.at = "l115"]
                      /\ threads' = CallerAsks("get_stderr")
                 ELSE /\ tool_call' = [tc EXCEPT !.at = "l117"]
                      /\ threads' = CallerAsks("is_running")
          [] tc.at = "l115" ->
               /\ tool_call' = [tc EXCEPT !.at = "l117",
                                          !.stderr = @ \o CallerRet]
               /\ threads' = CallerAsks("is_running")
          [] tc.at = "l117" ->
               IF ~CallerRet[1]
                 THEN /\ tool_call' = [tc EXCEPT !.at = "l118"]
                      /\ threads' = CallerAsks("get_process_code")
               ELSE IF /\ elapsed_time >= tc.min_time
                       /\ \/ tc.stdout # << >> \/ tc.stderr # << >>
                          \/ tc.timeout # NoTimeout /\ elapsed_time > tc.timeout
                 THEN /\ tool_call' = ToolReturns(tc, OutputReport(tc.stdout,
                                                                   tc.stderr))
                      /\ threads' = CallerLeaves
               ELSE /\ tool_call' =
                         [tc EXCEPT !.at = "l111",
                                    !.polls = IF @ < MaxPolls THEN @ + 1 ELSE @]
                    /\ threads' = CallerAsks("is_new_stdout")
          [] OTHER ->
               /\ tool_call' = ToolRaises(tc, "NameError")
               /\ threads' = CallerLeaves
  /\ UNCHANGED <<nonCmdVars, procs, monitors, runner, workspace, drained>>

\* The components outside the agents, before they are constructed.
InitExt ==
  /\ InitAlignerIdle
  /\ InitCmdIdle

\* ------------------------------------------------ the FSMs that are built
\* The operator's declarations (add_state, add_transition and the State
\* constructors) are the input: every FSM of this family is one the
\* constructors accept.
ClsChoices ==
  {c \in [Names -> Kinds] :
     /\ c["S0"] \in {"Start", "Stable"}
     /\ c["A"] \in {"Stable", "Transient", "Start", "Absent"}
     /\ c["B"] \in {"Stable", "Transient", "End", "Absent"}
     /\ c["ERROR"] \in {"End", "Absent"}}

Edges == {"S0", "A", "B"} \X {"A", "B", "ERROR"}

\* add_transition accepts an edge only between declared states.
EdgeSets(c, m) ==
  {E \in SUBSET {e \in Edges : c[e[1]] # "Absent" /\ c[e[2]] # "Absent"} :
     Cardinality(E) <= m}

RECURSIVE OutSeq(_, _, _)
OutSeq(src, E, i) ==
  IF i > Len(StateOrder) THEN << >>
  ELSE (IF <<src, StateOrder[i]>> \in E
          THEN <<Transition(src, StateOrder[i])>> ELSE << >>)
       \o OutSeq(src, E, i + 1)

NoVerifier == [type |-> "None", next_state |-> NoneVal]
AgentVerifier == [type |-> "Agent", next_state |-> NoneVal]
ForwardVerifier(t) == [type |-> "Forward", next_state |-> t]

\* StartState and EndState are built without a verifier; a Stable or
\* Transient state gets an agent verifier, or a forward verifier naming its
\* first declared target.
VerifierChoices(c, ts) ==
  {v \in [Names -> {NoVerifier, AgentVerifier} \cup
                   {ForwardVerifier(n) : n \in Names}] :
     \A s \in Names :
       IF c[s] \in {"Stable", "Transient"}
         THEN \/ v[s] = AgentVerifier
              \/ Len(ts[s]) > 0 /\ v[s] = ForwardVerifier(ts[s][1].target)
         ELSE v[s] = NoVerifier}

RetryChoices(c) ==
  {m \in [Names -> 0..(IF MaxRetries > DefaultMaxRetries
                         THEN MaxRetries ELSE DefaultMaxRetries)] :
     \A s \in Names :
       IF c[s] = "Stable" THEN m[s] <= MaxRetries
       ELSE m[s] = DefaultMaxRetries}

NoSubscriptions == [s \in Names |-> << >>]

InitLocals ==
  /\ pc = "idle"
  /\ max_steps = 0
  /\ step = 0
  /\ current_state = NoneVal
  /\ current_input = EmptyStr
  /\ last_stable_state_name = NoneVal
  /\ output = UNSET
  /\ final_output = EmptyStr
  /\ result = [next_state |-> EmptyStr, output |-> EmptyStr]
  /\ initial_context_ledger = MemoryLedger
  /\ last = [op |-> "none", state |-> NoneVal, raised |-> FALSE,
             raw |-> EmptyStr]
  /\ log = << >>
  /\ iterations = 0
  /\ compiles = 0
  /\ compileRaised = FALSE
  /\ agent_history = [n \in Names |-> MemoryLedger]
  /\ latest_messages = << >>
  /\ commits = [l \in LedgerIds |-> 0]
  /\ io = NoOp
  /\ InitToolLocals

InitDeclared(m) ==
  /\ cls \in ClsChoices
  /\ \E E \in EdgeSets(cls, m) :
       transitions = [s \in Names |-> OutSeq(s, E, 1)]
  /\ verifier \in VerifierChoices(cls, transitions)
  /\ max_retries \in RetryChoices(cls)
  /\ retries_counter = max_retries
  /\ sysprompts = [s \in Names |-> << >>]
  /\ sockets = [s \in Names |-> {}]
  /\ target_state = NoneVal
  /\ initial_state = NoneVal

Init ==
  /\ InitDeclared(MaxTransitions)
  /\ subscriptions = NoSubscriptions
  /\ InitLocals
  /\ delivered = << >>
  /\ agent_config = NoTools
  /\ chat_model = NoChatModel
  /\ InitExt

Next ==
  \/ \E ms \in 0..MaxSteps : Run(ms)
  \/ StepEnd
  \/ StepError
  \/ StepExecute
  \/ LoopExhausted

Spec == Init /\ [][Next]_vars

\* ---------------------------------------- compile() called by the operator
\* The same FSMs with subscriptions declared on state A, compile() called
\* up to MaxCompiles times before run(), and short runs.
SubscriptionChoices ==
  {sub \in [Names -> {<< >>, <<InitialContextSocketName>>, <<"B">>,
                      <<"B", InitialContextSocketName>>, <<"ghost">>}] :
     \A s \in Names \ {"A"} : sub[s] = << >>}

InitCompile ==
  /\ InitDeclared(MaxTransitionsCompile)
  /\ \A s \in Names : cls[s] = "Stable" => max_retries[s] = 0
  /\ subscriptions \in SubscriptionChoices
  /\ InitLocals
  /\ delivered = << >>
  /\ agent_config = NoTools
  /\ chat_model = NoChatModel
  /\ InitExt

NextCompile ==
  \/ Compile
  \/ \E ms \in 0..MaxStepsCompile : Run(ms)
  \/ StepEnd
  \/ StepError
  \/ StepExecute
  \/ LoopExhausted

SpecCompile == InitCompile /\ [][NextCompile]_vars

\* The runs of the driver under the fairness its loop has: the caller calls
\* run, and a loop that can take an iteration takes it.  Every answer of a
\* forward verifier is one an agent verifier may give, so the FSMs are
\* those with agent verifiers; an FSM that compile() rejects never enters
\* the loop.
InitFair ==
  /\ Init
  /\ \A s \in Names : verifier[s].type # "Forward"
  /\ Cardinality(start_states) = 1
  /\ end_states # {}
  /\ reachable_end
  /\ Len(transitions[CHOOSE n \in start_states : TRUE]) = 1

FairSpec == InitFair /\ [][Next]_vars /\ WF_vars(Next)

\* ------------------------------------- ledgers and sockets, used directly
\* Two agents wired as compile() wires them: A subscribes to the initial
\* context and to B, B subscribes to A.  The callers commit to the
\* initial-context ledger, execute the agents and use the sockets in any order.
SocketKeys == {<<"A", InitialContextSocketName>>, <<"A", "B">>, <<"B", "A">>}

Brief(r) ==
  [op |-> r.op, agent |-> r.agent, socket |-> r.socket,
   returned |-> r.returned, after |-> r.after]

IoRecord(op, a, name, ret, before, after) ==
  [op |-> op, agent |-> a, socket |-> name, returned |-> ret,
   before |-> before, after |-> after, prev |-> Brief(io)]

fsmFrozen ==
  <<cfgVars, sysprompts, target_state, initial_state, pc, max_steps, step,
    current_state, current_input, last_stable_state_name, output,
    final_output, result, histVars, retries_counter, toolVars, extVars>>

SetSocket(a, sock) ==
  [sockets EXCEPT ![a] = {x \in @ : x.name # sock.name} \cup {sock}]

\* self.initial_context_ledger.commit(initial_request) by the seeder.
SeedContext ==
  /\ Now < MaxCommits
  /\ initial_context_ledger' = commit(initial_context_ledger, Now, Text(Request))
  /\ commits' = [commits EXCEPT ![CurrentContextLedger] = @ + 1]
  /\ io' = IoRecord("commit", NoneVal, CurrentContextLedger, << >>, 0, 0)
  /\ UNCHANGED <<fsmFrozen, sockets, agent_history, latest_messages, delivered>>

\* agent.execute_agent(task_context), returning or raising.
ExecuteAgent(a, returns) ==
  /\ returns => Now < MaxCommits
  /\ LET x == execute_agent(a, returns, Out(a, commits[a] + 1)) IN
       /\ sockets' = [sockets EXCEPT ![a] = x.sockets]
       /\ latest_messages' = x.latest_messages
       /\ agent_history' = [agent_history EXCEPT ![a] = x.history]
       /\ commits' = [commits EXCEPT ![a] = @ + x.commits]
  /\ io' = IoRecord(IF returns THEN "execute_agent" ELSE "execute_agent_raised",
                    a, a, << >>, 0, 0)
  /\ delivered' = [k \in SocketKeys |->
                     IF k[1] = a THEN [delivered[k] EXCEPT !.only_new = FALSE]
                     ELSE delivered[k]]
  /\ UNCHANGED <<fsmFrozen, initial_context_ledger>>

PeekLatest(a, name) ==
  /\ LET sock == SocketOf(sockets[a], name)
         r == peek_latest(sock, Ledger(sock.ledger))
     IN /\ sockets' = SetSocket(a, r.socket)
        /\ io' = IoRecord("peek_latest", a, name, <<r.returned>>, sock.cursor,
                          r.socket.cursor)
  /\ UNCHANGED <<fsmFrozen, initial_context_ledger, ledgerVars, delivered>>

ReadLatest(a, name) ==
  /\ LET sock == SocketOf(sockets[a], name)
         r == read_latest(sock, Ledger(sock.ledger))
     IN /\ sockets' = SetSocket(a, r.socket)
        /\ io' = IoRecord("read_latest", a, name, <<r.returned>>, sock.cursor,
                          r.socket.cursor)
  /\ delivered' = [delivered EXCEPT ![<<a, name>>].only_new = FALSE]
  /\ UNCHANGED <<fsmFrozen, initial_context_ledger, ledgerVars>>

\* agent.get_new_socket_messages(socket_name).
ReadNewHistory(a, name) ==
  /\ LET sock == SocketOf(sockets[a], name)
         r == read_new_history(sock, Ledger(sock.ledger))
     IN /\ sockets' = SetSocket(a, r.socket)
        /\ io' = IoRecord("read_new_history", a, name, r.returned, sock.cursor,
                          r.socket.cursor)
        /\ delivered' = [delivered EXCEPT ![<<a, name>>].items = @ \o r.returned]
  /\ UNCHANGED <<fsmFrozen, initial_context_ledger, ledgerVars>>

ReadEntireHistory(a, name) ==
  /\ LET sock == SocketOf(sockets[a], name)
         r == read_entire_history(sock, Ledger(sock.ledger))
     IN /\ sockets' = SetSocket(a, r.socket)
        /\ io' = IoRecord("read_entire_history", a, name, r.returned,
                          sock.cursor, r.socket.cursor)
  /\ delivered' = [delivered EXCEPT ![<<a, name>>].only_new = FALSE]
  /\ UNCHANGED <<fsmFrozen, initial_context_ledger, ledgerVars>>

\* agent.get_new_messages(): read_new_history on every socket that has new
\* messages.
GetNewMessages(a) ==
  /\ \E x \in sockets[a] : has_new_messages(x, Ledger(x.ledger))
  /\ sockets' = [sockets EXCEPT ![a] =
       {IF has_new_messages(x, Ledger(x.ledger))
          THEN read_new_history(x, Ledger(x.ledger)).socket ELSE x : x \in @}]
  /\ delivered' = [k \in SocketKeys |->
       IF k[1] = a /\ has_new_messages(SocketOf(sockets[a], k[2]),
                                       Ledger(SocketOf(sockets[a], k[2]).ledger))
         THEN [delivered[k] EXCEPT !.items = @ \o
                 read_new_history(SocketOf(sockets[a], k[2]),
                    Ledger(SocketOf(sockets[a], k[2]).ledger)).returned]
         ELSE delivered[k]]
  /\ io' = IoRecord("get_new_messages", a, NoneVal, << >>, 0, 0)
  /\ UNCHANGED <<fsmFrozen, initial_context_ledger, ledgerVars>>

InitWired ==
  /\ cls = [n \in Names |-> CASE n = "S0" -> "Start" [] n = "A" -> "Stable"
                              [] n = "B" -> "Transient" [] OTHER -> "End"]
  /\ transitions = [n \in Names |->
                      CASE n = "S0" -> <<Transition("S0", "A")>>
                        [] n = "A" -> <<Transition("A", "B")>>
                        [] n = "B" -> <<Transition("B", "ERROR")>>
                        [] OTHER -> << >>]
  /\ verifier = [n \in Names |-> IF n \in {"A", "B"} THEN AgentVerifier
                                  ELSE NoVerifier]
  /\ max_retries = [n \in Names |-> DefaultMaxRetries]
  /\ retries_counter = max_retries
  /\ subscriptions = [n \in Names |->
                        CASE n = "A" -> <<InitialContextSocketName, "B">>
                          [] n = "B" -> <<"A">>
                          [] OTHER -> << >>]
  /\ sysprompts = [s \in Names |-> << >>]
  /\ sockets = [n \in Names |->
                  CASE n = "A" -> {AgentSocket(InitialContextSocketName,
                                               ContextAtInit),
                                   AgentSocket("B", "B")}
                    [] n = "B" -> {AgentSocket("A", "A")}
                    [] OTHER -> {}]
  /\ target_state = NoneVal
  /\ initial_state = NoneVal
  /\ InitLocals
  /\ delivered = [k \in SocketKeys |-> [items |-> << >>, only_new |-> TRUE]]

InitLedger ==
  InitWired /\ agent_config = NoTools /\ chat_model = NoChatModel /\ InitExt

NextLedger ==
  \/ SeedContext
  \/ \E a \in {"A", "B"} : \E returns \in BOOLEAN : ExecuteAgent(a, returns)
  \/ \E k \in SocketKeys : PeekLatest(k[1], k[2])
  \/ \E k \in SocketKeys : ReadLatest(k[1], k[2])
  \/ \E k \in SocketKeys : ReadNewHistory(k[1], k[2])
  \/ \E k \in SocketKeys : ReadEntireHistory(k[1], k[2])
  \/ \E a \in {"A", "B"} : GetNewMessages(a)

SpecLedger == InitLedger /\ [][NextLedger]_vars

\* ------------------------------------------- the tool-call loop of an agent
InitTools ==
  /\ InitWired
  /\ agent_config \in AgentConfigs
  /\ \E induced_tool \in BOOLEAN :
       chat_model = [induced_tool |-> induced_tool,
                     tools |-> BoundTools(agent_config.tool_registry)]
  /\ InitExt

NextTools ==
  \/ InvokeModel
  \/ ModelRaises
  \/ ModelTurn

SpecTools == InitTools /\ [][NextTools]_vars

\* ------------------------------------------------- the aligner on its own
\* A ToolAligner built by its factory from a configuration; tools are
\* added as the registration of an agent adds them, and the pools are
\* matched against and tool calls aligned in any order.
InitAligner ==
  /\ InitWired
  /\ agent_config = NoTools
  /\ \E config \in AlignerConfigs : aligner = ToolAligner(config)
  /\ similarity \in [SimilarityPairs -> Likeness]
  /\ align_io = NoAlignOp
  /\ chat_model = NoChatModel
  /\ InitCmdIdle

NextAligner ==
  \/ \E name \in AlignTools : AddTool(name)
  \/ \E pool_name \in {ToolsPool} \cup {ArgsPool(n) : n \in AlignTools} :
       \E query \in NameQueries \cup KeyQueries : Match(pool_name, query)
  \/ \E toolcall \in ToolCalls : AlignToolCall(toolcall)

SpecAligner == InitAligner /\ [][NextAligner]_vars

\* ------------------------------------- the monitor of one child process
\* monitor_cmd has started a process that writes up to MaxLines lines to
\* either stream; the caller calls the public methods of its monitor in
\* any order while the readers and the waiter run.
InitMonitor ==
  /\ InitWired
  /\ agent_config = NoTools
  /\ chat_model = NoChatModel
  /\ InitAlignerIdle
  /\ CmdIs(monitor_cmd(IdleCmd, [s \in Streams |-> MaxLines]))
  /\ tool_call = NoToolCall

WorkerStep(p) ==
  \/ \E s \in Streams : ReadStr(p, s)
  \/ WaiterStarts(p)
  \/ WaitReturns(p)
  \/ WaiterPublishes(p)

ChildStep(p) ==
  \/ \E s \in Streams : ChildWrites(p, s)
  \/ \E status \in ExitStatuses : ChildExits(p, status)

NextMonitor ==
  \/ \E method \in CallerMethods : CallerCalls(method)
  \/ \E t \in ThreadIds : MethodEnter(t)
  \/ \E t \in ThreadIds : MethodBody(t)
  \/ ChildStep(1)
  \/ WorkerStep(1)

SpecMonitor == InitMonitor /\ [][NextMonitor]_vars

\* ------------------------------------------- writing to the child's stdin
\* The child is a script that writes its output, PipeCapacity + 2 lines
\* on stdout, then reads what it is sent on stdin, and exits; the caller
\* sends it text of up to PipeCapacity + 1 chunks and drains stdout.
StdinScript == [s \in Streams |-> IF s = "out" THEN PipeCapacity + 2 ELSE 0]
HasWritten(p) == \A s \in Streams : procs[p].written[s] = procs[p].limit[s]

\* The child reads a chunk from its stdin.
ChildReads(p) ==
  /\ p \in 1..Len(procs)
  /\ procs[p].alive
  /\ HasWritten(p)
  /\ procs[p].stdin > 0
  /\ procs' = [procs EXCEPT ![p].stdin = @ - 1]
  /\ UNCHANGED <<nonCmdVars, monitors, runner, threads, workspace, tool_call,
                 drained>>

\* The script ends.
ChildFinishes(p, status) == HasWritten(p) /\ ChildExits(p, status)

\* The caller calls write_stdin with a text of n chunks.
CallerWrites(n) ==
  /\ threads[Caller].call.stage \in {"none", "returned"}
  /\ threads' = [threads EXCEPT ![Caller].call = Call("write_stdin", 1, <<n>>)]
  /\ UNCHANGED <<nonCmdVars, procs, monitors, runner, workspace, tool_call,
                 drained>>

InitStdin ==
  /\ InitWired
  /\ agent_config = NoTools
  /\ chat_model = NoChatModel
  /\ InitAlignerIdle
  /\ CmdIs(monitor_cmd(IdleCmd, StdinScript))
  /\ tool_call = NoToolCall

NextStdin ==
  \/ \E n \in 1..(PipeCapacity + 1) : CallerWrites(n)
  \/ CallerCalls("get_stdout")
  \/ \E t \in ThreadIds : MethodEnter(t)
  \/ \E t \in ThreadIds : MethodBody(t)
  \/ write_stdin(Caller)
  \/ \E s \in Streams : ChildWrites(1, s)
  \/ ChildReads(1)
  \/ \E status \in ExitStatuses : ChildFinishes(1, status)
  \/ WorkerStep(1)

SpecStdin == InitStdin /\ [][NextStdin]_vars

\* The threads of monitor_cmd are scheduled: a reader or the waiter takes
\* its next step when it can, the thread inside a method runs on to its
\* end, and the waiter, waiting for a lock that is released after every
\* method, gets it.  Nothing makes the child write or exit, or the caller
\* call.  The child writes up to MaxFairLines lines to either stream.
InitFairMonitor ==
  /\ InitWired
  /\ agent_config = NoTools
  /\ chat_model = NoChatModel
  /\ InitAlignerIdle
  /\ CmdIs(monitor_cmd(IdleCmd, [s \in Streams |-> MaxFairLines]))
  /\ tool_call = NoToolCall

FairSpecMonitor ==
  /\ InitFairMonitor
  /\ [][NextMonitor]_vars
  /\ WF_vars(WorkerStep(1))
  /\ WF_vars(\E t \in ThreadIds : MethodBody(t))
  /\ SF_vars(MethodEnter(Waiter(1)))

\* -------------------------------------- the background tools of a workspace
\* A PythonWorkSpace: run_script in background mode and monitor_process
\* are called one after the other while the processes and their threads
\* run.
InitWorkspace ==
  /\ InitWired
  /\ agent_config = NoTools
  /\ chat_model = NoChatModel
  /\ InitExt

Timeouts == {NoTimeout, 0}
MinTimes == {0, 1}

NextWorkspace ==
  \/ RunScript
  \/ RunScriptDecides
  \/ \E timeout \in Timeouts : \E min_time \in MinTimes :
       MonitorProcess(timeout, min_time)
  \/ MonitorProcessStep
  \/ \E t \in ThreadIds : MethodEnter(t)
  \/ \E t \in ThreadIds : MethodBody(t)
  \/ \E p \in 1..MaxProcs : \E s \in Streams : ChildWrites(p, s)
  \/ \E p \in 1..MaxProcs : ChildExits(p, p)
  \/ \E p \in 1..MaxProcs : WorkerStep(p)

SpecWorkspace == InitWorkspace /\ [][NextWorkspace]_vars

\* ------------------------------------------------------------------ claims
LastExec == log[Len(log)]
Halted == pc \in {"done", "raised"}

C2_Claim ==
  (pc = "done" /\ current_state \in Names /\ TypeOf(current_state) = "END")
    => (Len(log) > 0 /\ final_output = LastExec.output)

\* The topology of scenario 2: Start -> A, A -> B, B an End state, A Stable
\* with max_retries = 1 and an agent verifier.
Scenario2 ==
  /\ cls = [n \in Names |-> CASE n = "S0" -> "Start" [] n = "A" -> "Stable"
                              [] n = "B" -> "End" [] OTHER -> "Absent"]
  /\ transitions = [n \in Names |->
                      CASE n = "S0" -> <<Transition("S0", "A")>>
                        [] n = "A" -> <<Transition("A", "B")>>
                        [] OTHER -> << >>]
  /\ verifier["A"] = AgentVerifier
  /\ max_retries["A"] = 1

AExecs == {i \in 1..Len(log) : log[i].state = "A"}
NthA(i) == Cardinality({j \in AExecs : j <= i})

\* A's verifier answers a name that matches no transition on A's first
\* execution and B's name on the second; nothing raises.
Scenario2Answers ==
  \A i \in AExecs :
    /\ ~log[i].raised
    /\ NthA(i) = 1 => log[i].to = ErrorStateId
    /\ NthA(i) = 2 => log[i].to = "B"

\* C3: in scenario 2 the driver routes to Error once, consumes one retry,
\* executes A exactly twice, and run returns the output of A's second
\* execution.  run("x") has the default max_steps (1000); the property is
\* checked for every max_steps that covers the scenario's five iterations.
C3_TransitionMissRecovery ==
  (Scenario2 /\ Scenario2Answers /\ pc = "done" /\ max_steps >= 5)
    => /\ ErrorRoutes = 1
       /\ retries_counter["A"] = max_retries["A"] - 1
       /\ ExecCount("A") = 2
       /\ last.op = "end"
       /\ final_output = Out("A", 2)

C3_Witness ==
  /\ Scenario2 /\ Scenario2Answers /\ pc = "done" /\ max_steps >= 5
  /\ ExecCount("A") = 2
  /\ final_output = Out("A", 2)

\* C4, as stated: if the verifier of a Stable state a answers, on every
\* execution of a, a name that is no declared target of a, run returns
\* "FAILED" once a's retry budget is exhausted (a has failed once more than
\* it has retries).
C4_Claim ==
  \A a \in Names :
    ( /\ pc = "done"
      /\ cls[a] = "Stable"
      /\ last_stable_state_name = a
      /\ \A i \in 1..Len(log) :
           log[i].state = a => ~log[i].raised /\ log[i].to = ErrorStateId
      /\ ExecCount(a) = max_retries[a] + 1
      /\ retries_counter[a] = 0
      /\ current_state = ErrorStateId )
    => final_output = FAILED

\* An FSM of only a Start state, an End state and the transition between.
TrivialFSM ==
  \E e \in Names \ {"S0"} :
    /\ cls = [n \in Names |-> IF n = "S0" THEN "Start"
                              ELSE IF n = e THEN "End" ELSE "Absent"]
    /\ transitions = [n \in Names |->
                        IF n = "S0" THEN <<Transition("S0", e)>> ELSE << >>]

\* C5, as stated: with max_steps = 1 the trivial FSM returns the initial
\* request.
C5_Claim ==
  (pc = "done" /\ max_steps = 1 /\ TrivialFSM) => final_output = Request

\* C6: run performs at most max_steps loop iterations and then returns,
\* whatever the topology and the verifiers' answers.
C6_MaxStepsBounds ==
  /\ [](iterations <= max_steps)
  /\ <>Halted

C6_Witness ==
  /\ pc = "done"
  /\ iterations = max_steps
  /\ max_steps = MaxSteps
  /\ \E i, j \in 1..Len(log) :
       /\ i < j
       /\ log[i].state = "A" /\ log[i].to = "B"
       /\ log[j].state = "B" /\ log[j].to = "A"
       /\ cls["A"] = "Stable" /\ cls["B"] = "Stable"

\* C7, as stated: an exception raised while a state executes makes the
\* Error state the next current state, with the exception's message as the
\* next current input, and does not leave run.
C7_Claim ==
  (last.op = "execute" /\ last.raised)
    => /\ pc # "raised"
       /\ current_state = ErrorStateId
       /\ current_input = LastExec.output

\* C8: after a state executes without exception, the next current state is
\* a target T declared from that state iff the returned name, trimmed,
\* equals T; otherwise it is the Error state (also when the name is that of
\* a declared state that is no target from the current one).
C8_TransitionResolution ==
  (last.op = "execute" /\ ~last.raised)
    => /\ pc # "raised"
       /\ \A T \in Names :
            current_state = T <=>
              (T \in Targets(last.state) /\ Strip(last.raw) = Str(T))
       /\ (\A T \in Targets(last.state) : Strip(last.raw) # Str(T))
            => current_state = ErrorStateId

C8_Witness ==
  /\ last.op = "execute" /\ ~last.raised
  /\ cls["B"] # "Absent"
  /\ last.raw = <<" ", "B", "\n">>
  /\ "B" \notin Targets(last.state)
  /\ Targets(last.state) # {}
  /\ current_state = ErrorStateId

\* The four conditions of a well-formed topology.
OneStart == Cardinality({n \in Names : cls[n] = "Start"}) = 1
SomeEnd == \E n \in Names : cls[n] = "End"
SomeTransitionToEnd ==
  \E n \in Names : \E i \in 1..Len(transitions[n]) :
     cls[transitions[n][i].target] = "End"
StartHasOneTransition ==
  \A n \in Names : cls[n] = "Start" => Len(transitions[n]) = 1

CompileCalled == compiles > 0 \/ pc # "idle"

\* C9: unless the FSM has exactly one Start state, an End state, a
\* transition into an End state and exactly one transition leaving the
\* Start state, every compile() raises, and run raises before it executes
\* any state.
C9_CompileRejects ==
  ~(OneStart /\ SomeEnd /\ SomeTransitionToEnd /\ StartHasOneTransition)
    => /\ CompileCalled => compileRaised
       /\ pc \in {"idle", "raised"}
       /\ log = << >>
       /\ iterations = 0

C9_Witness ==
  /\ OneStart /\ SomeEnd /\ SomeTransitionToEnd
  /\ \E n \in Names : cls[n] = "Start" /\ Len(transitions[n]) = 2
  /\ compiles = 1
  /\ pc = "raised"

Compiled == CompileCalled /\ ~compileRaised

InPrompts(s, t) ==
  \E k \in 1..Len(sysprompts[s]) :
    \E i \in DOMAIN sysprompts[s][k].items :
       sysprompts[s][k].items[i].target = t

\* C10, as stated: after compile(), for every non-Start state S with
\* outgoing transitions, every declared target of S appears in the system
\* prompts of S's verifier, whichever kind of verifier S has.
C10_Original ==
  Compiled =>
    \A s \in Present :
      (cls[s] # "Start" /\ Len(transitions[s]) > 0)
        => \A t \in Targets(s) : InPrompts(s, t)

\* C10, amended: the same for every such S whose verifier is an agent
\* verifier (a forward verifier keeps no system prompts).
C10_Amended ==
  Compiled =>
    \A s \in Present :
      (cls[s] # "Start" /\ Len(transitions[s]) > 0
         /\ verifier[s].type = "Agent")
        => \A t \in Targets(s) : InPrompts(s, t)

C10_Witness ==
  /\ Compiled
  /\ \E s \in Present :
       /\ verifier[s].type = "Agent"
       /\ Len(transitions[s]) = 2
       /\ \A t \in Targets(s) : InPrompts(s, t)

\* A compile() is made in this step: the operator's, or the one of run().
CompileStep == compiles' = compiles + 1 \/ (pc = "idle" /\ pc' # "idle")

\* C11, as stated: a compile() made after one that succeeded leaves every
\* verifier's list of system prompts as it was.
C11_Claim ==
  [][(Compiled /\ CompileStep) => sysprompts' = sysprompts]_vars

Subscribed(s) == {subscriptions[s][j] : j \in 1..Len(subscriptions[s])}

IsPrefix(u, v) == Len(u) <= Len(v) /\ SubSeq(v, 1, Len(u)) = u

Cursor(k) == SocketOf(sockets[k[1]], k[2]).cursor
LedgerOfSocket(k) == Ledger(SocketOf(sockets[k[1]], k[2]).ledger)

\* C13: on every ledger, snapshots_number equals the number of commit calls
\* made so far and the length of the stored history, and every step leaves
\* the snapshots already committed in place, unaltered and in order.
C13_LedgerAppendOnly ==
  /\ [](\A l \in Names \cup {CurrentContextLedger} :
          /\ Ledger(l).snapshots_number = commits[l]
          /\ Ledger(l).snapshots_number = Len(Ledger(l).history))
  /\ [][/\ \A n \in Names :
             IsPrefix(agent_history[n].history, agent_history'[n].history)
         /\ IsPrefix(initial_context_ledger.history,
                     initial_context_ledger'.history)]_vars

C13_Witness ==
  /\ commits["A"] = 2
  /\ Len(agent_history["A"].history) = 2
  /\ agent_history["A"].history[1].output = AgentExecutionResult(Out("A", 1))
  /\ io.op = "read_entire_history"
  /\ io.prev.op = "read_new_history"

\* C14: under any interleaving of commits and socket operations, no
\* socket's cursor exceeds the snapshot count of its ledger, no step
\* decreases a cursor, and right after read_latest the cursor equals the count.
C14_CursorBounds ==
  /\ [](\A k \in SocketKeys : Cursor(k) <= LedgerOfSocket(k).snapshots_number)
  /\ [](io.op = "read_latest" =>
          Cursor(<<io.agent, io.socket>>) =
            LedgerOfSocket(<<io.agent, io.socket>>).snapshots_number)
  /\ [][\A k \in SocketKeys :
          SocketOf(sockets'[k[1]], k[2]).cursor >= Cursor(k)]_vars

C14_Witness ==
  /\ io.op = "read_latest"
  /\ io.prev.op = "read_latest"
  /\ io.agent = "B" /\ io.socket = "A"
  /\ io.before = 2 /\ io.after = 2
  /\ Cursor(<<"B", "A">>) = 2
  /\ agent_history["A"].snapshots_number = 2

\* C15: peek_latest leaves the cursor where it was; a read_latest that
\* directly follows a read_latest on the same socket (no commit between)
\* leaves the same cursor and returns the same snapshot text.
C15_PeekAndReadLatest ==
  /\ io.op = "peek_latest" =>
       /\ io.after = io.before
       /\ Cursor(<<io.agent, io.socket>>) = io.before
  /\ ( /\ io.op = "read_latest" /\ io.prev.op = "read_latest"
       /\ io.agent = io.prev.agent /\ io.socket = io.prev.socket )
     => /\ io.after = io.prev.after
        /\ Cursor(<<io.agent, io.socket>>) = io.prev.after
        /\ io.returned = io.prev.returned

C15_Witness ==
  /\ io.op = "read_latest" /\ io.prev.op = "read_latest"
  /\ io.agent = "A" /\ io.socket = "B"
  /\ io.prev.agent = "A" /\ io.prev.socket = "B"
  /\ io.after = 1
  /\ io.returned = <<SnapshotStr(agent_history["B"].history[1])>>
  /\ io.returned = io.prev.returned

\* C16: on a socket read by read_new_history only, the calls so far have
\* delivered, in commit order and each once, exactly the snapshots its
\* ledger held at the latest call, and a call returns exactly those
\* committed since the call before it.
C16_ReadNewHistoryExactlyOnce ==
  /\ \A k \in SocketKeys :
       delivered[k].only_new =>
         /\ delivered[k].items =
              SubSeq(get_history(LedgerOfSocket(k)), 1, Cursor(k))
         /\ Len(delivered[k].items) = Cursor(k)
  /\ ( /\ io.op = "read_new_history"
       /\ delivered[<<io.agent, io.socket>>].only_new )
     => /\ io.returned =
             SubSeq(get_history(LedgerOfSocket(<<io.agent, io.socket>>)),
                    io.before + 1,
                    LedgerOfSocket(<<io.agent, io.socket>>).snapshots_number)
        /\ io.after = LedgerOfSocket(<<io.agent, io.socket>>).snapshots_number

C16_Witness ==
  /\ io.op = "read_new_history"
  /\ io.agent = "B" /\ io.socket = "A"
  /\ delivered[<<"B", "A">>].only_new
  /\ io.before = 1 /\ io.after = 2
  /\ Len(io.returned) = 1
  /\ Len(delivered[<<"B", "A">>].items) = 2

\* C17: when a state with an agent has executed, the message its prompt
\* assembly read from its socket on another state's agent is the latest
\* snapshot that agent had committed by then.
C17_ObservesLatestCommit ==
  (last.op = "execute" /\ HasAgent(last.state)) =>
    \A a \in Subscribed(last.state) \cap Present :
      (HasAgent(a) /\ a # last.state /\ agent_history[a].snapshots_number > 0)
        => /\ a \in DOMAIN latest_messages
           /\ latest_messages[a] =
                SnapshotStr(agent_history[a].history[
                              Len(agent_history[a].history)])

C17_Witness ==
  /\ last.op = "execute" /\ last.state = "A"
  /\ subscriptions["A"] = <<"B">>
  /\ HasAgent("A") /\ HasAgent("B")
  /\ agent_history["B"].snapshots_number = 1
  /\ latest_messages["B"] = SnapshotStr(agent_history["B"].history[1])
  /\ agent_history["B"].history[1].output = AgentExecutionResult(Out("B", 1))

\* C18: a call of an agent's execute that returns appends one snapshot,
\* holding its result, to that agent's ledger and leaves every other ledger,
\* the initial-context ledger included, as it was.
C18_ExecuteCommitsOnce ==
  [][\A a \in {"A", "B"} :
       ExecuteAgent(a, TRUE) =>
         /\ agent_history'[a].history =
              Append(agent_history[a].history,
                     agent_history'[a].history[Len(agent_history[a].history) + 1])
         /\ agent_history'[a].history[Len(agent_history[a].history) + 1].output
              = AgentExecutionResult(Out(a, commits[a] + 1))
         /\ \A b \in Names \ {a} : agent_history'[b] = agent_history[b]
         /\ initial_context_ledger' = initial_context_ledger]_vars

C18_Witness ==
  /\ io.op = "execute_agent" /\ io.agent = "B"
  /\ agent_history["B"].snapshots_number = 1
  /\ agent_history["A"].snapshots_number = 1
  /\ initial_context_ledger.snapshots_number = 0

\* The messages the loop of _invoke_model has appended to the prompt list.
Appended == SubSeq(prompts, Len(BasePrompts(agent_config)) + 1, Len(prompts))

CountRole(seq, r) == Cardinality({i \in 1..Len(seq) : seq[i].role = r})

\* C19: when _invoke_model has returned, the assistant messages its loop
\* appended are as many as the calls of model.invoke, and the tool messages
\* it appended are as many as the tool calls requested over all rounds.
\* Nothing else is appended but the tool instruction that invoke itself
\* appends, once per call, in induced mode.
C19_LoopMessageCounts ==
  loop_pc = "returned" =>
    /\ CountRole(Appended, "assistant") = invocations
    /\ CountRole(Appended, "tool") = requested
    /\ CountRole(Appended, "system") =
         IF chat_model.induced_tool THEN invocations ELSE 0
    /\ Len(Appended) = CountRole(Appended, "assistant")
                       + CountRole(Appended, "tool")
                       + CountRole(Appended, "system")

C19_Witness ==
  /\ loop_pc = "returned"
  /\ invocations = 3
  /\ requested = 3
  /\ CountRole(Appended, "tool") = 3
  /\ \E i \in 1..Len(tool_trace) :
       tool_trace[i].name = "Calculator.ad" /\ tool_trace[i].aligned = "Calc.add"

\* C20: a tool call whose name is not registered, with no aligner or with
\* an aligner that finds no match, ends in the tool-not-found error, which
\* leaves _invoke_model (nothing is handled after it), and no tool is
\* invoked for it.
C20_ToolNotFound ==
  \A i \in 1..Len(tool_trace) :
    ( /\ tool_trace[i].name \notin agent_config.tool_registry
      /\ \/ agent_config.tool_aligner = NoAligner
         \/ tool_trace[i].aligned = NoMatch )
    => /\ tool_trace[i].outcome = "tool_not_found"
       /\ tool_trace[i].invoked = << >>
       /\ loop_pc = "raised"
       /\ i = Len(tool_trace)

C20_Witness ==
  /\ loop_pc = "raised"
  /\ agent_config.tool_aligner # NoAligner
  /\ agent_config.tool_registry = Registry
  /\ Len(tool_trace) = 2
  /\ tool_trace[1].outcome = "result"
  /\ tool_trace[2].name = "Calculator.ad"
  /\ tool_trace[2].aligned = NoMatch
  /\ tool_trace[2].outcome = "tool_not_found"
  /\ tool_trace[2].invoked = << >>


\* What the three stages give for a query on a pool of these phrases under
\* these thresholds: the query itself, else the best lexical candidates if
\* they reach the lexical threshold, else the phrases of the highest
\* semantic score if it reaches the semantic threshold, else null.
PhraseSet(phrases) == {phrases[i] : i \in 1..Len(phrases)}
BestLexical(P, q) ==
  {p \in P : \A r \in P : lexical_score(q, r) <= lexical_score(q, p)}
BestSemantic(P, q) ==
  {p \in P : \A r \in P : semantic_score(q, r) <= semantic_score(q, p)}
ThreeStages(phrases, lexical_threshold, semantic_threshold, q) ==
  LET P == PhraseSet(phrases) IN
  IF q \in P THEN {Some(q)}
  ELSE IF \E p \in BestLexical(P, q) : lexical_score(q, p) >= lexical_threshold
    THEN {Some(p) : p \in BestLexical(P, q)}
  ELSE IF \E p \in BestSemantic(P, q) : semantic_score(q, p) >= semantic_threshold
    THEN {Some(p) : p \in BestSemantic(P, q)}
  ELSE {None}
PoolMatches(pool, q) ==
  ThreeStages(pool.phrases, pool.lexical_threshold, pool.semantic_threshold, q)

Matched == align_io.op = "match"
Aligned == align_io.op = "align_tool_call"
MatchedPool == aligner.pools[align_io.pool]

\* C21: align_tool_call returns null if the tool name has no match in the
\* tools pool or if an argument key has no match in the args pool of the
\* resolved tool; otherwise it returns a ToolCall with the resolved name
\* whose arguments give every matched key the unchanged value of an
\* original key that matched it.
C21_Claim ==
  Aligned =>
    LET tc == align_io.toolcall
        names == PoolMatches(aligner.pools[ToolsPool], tc.name)
    IN /\ align_io.raised = "no"
       /\ IF names = {None} THEN align_io.returned = None
          ELSE \E n \in names :
            LET keys == [i \in 1..Len(tc.args) |->
                           PoolMatches(aligner.pools[ArgsPool(n.value)],
                                       tc.args[i][1])]
            IN IF \E i \in 1..Len(tc.args) : keys[i] = {None}
                 THEN align_io.returned = None
                 ELSE /\ align_io.returned.some
                      /\ align_io.returned.value.name = n.value
                      /\ \A i \in 1..Len(tc.args) :
                           \E k \in keys[i] :
                             DictHas(align_io.returned.value.args, k.value)
                      /\ \A j \in 1..Len(align_io.returned.value.args) :
                           \E i \in 1..Len(tc.args) :
                             /\ Some(align_io.returned.value.args[j][1]) \in keys[i]
                             /\ align_io.returned.value.args[j][2] = tc.args[i][2]

\* C22: match returns the query when it is a phrase of the pool, else the
\* best lexical candidate when its score reaches the lexical threshold of
\* the pool, else the phrase of the highest semantic score when that
\* reaches the semantic threshold, else null.
C22_Claim ==
  Matched =>
    /\ align_io.raised = "no"
    /\ align_io.returned \in PoolMatches(MatchedPool, align_io.query)

\* C23: a match against a pool without phrases returns null and does not
\* fail, and align_tool_call returns null for a call that carries an
\* argument key for a registered tool without arguments.
C23_Claim ==
  /\ (Matched /\ MatchedPool.phrases = << >>) =>
       align_io.raised = "no" /\ align_io.returned = None
  /\ (/\ Aligned
      /\ align_io.toolcall.name \in PhraseSet(aligner.pools[ToolsPool].phrases)
      /\ aligner.pools[ArgsPool(align_io.toolcall.name)].phrases = << >>
      /\ align_io.toolcall.args # << >>) =>
       align_io.raised = "no" /\ align_io.returned = None

\* C24: the thresholds applied to argument keys are the configured args
\* thresholds and those applied to tool names the configured name
\* thresholds: a match that returns gives what the three stages give under
\* the configured thresholds of its pool.
C24_Claim ==
  (Matched /\ align_io.raised = "no") =>
    align_io.returned \in
      IF align_io.pool = ToolsPool
        THEN ThreeStages(MatchedPool.phrases,
                         aligner.config.tool_name_lexical_threshold,
                         aligner.config.tool_name_semantic_threshold,
                         align_io.query)
        ELSE ThreeStages(MatchedPool.phrases,
                         aligner.config.tool_args_lexical_threshold,
                         aligner.config.tool_args_semantic_threshold,
                         align_io.query)

\* The lines of a stream that the reader has handed to the monitor, the
\* cursor of the stream, and the lines the child's pipe has carried.
StreamBuffer(m, s) == IF s = "out" THEN monitors[m]._stdout ELSE monitors[m]._stderr
StreamCursor(m, s) ==
  IF s = "out" THEN monitors[m]._stdout_ptr ELSE monitors[m]._stderr_ptr
LinesOf(s, n) == [i \in 1..n |-> Line(s, i)]

C25_DrainsAreThePrefix ==
  \A m \in 1..Len(monitors) : \A s \in Streams :
    /\ StreamBuffer(m, s) = LinesOf(s, Len(StreamBuffer(m, s)))
    /\ StreamCursor(m, s) \in 0..Len(StreamBuffer(m, s))
    /\ drained[m][s] = SubSeq(StreamBuffer(m, s), 1, StreamCursor(m, s))

C25_CursorNeverDecreases ==
  \A m \in 1..Len(monitors) : \A s \in Streams :
    StreamCursor(m, s)' >= StreamCursor(m, s)

\* C25: under every interleaving of the two readers appending and the
\* caller draining, the concatenation of the drain results of a stream is
\* the sequence of lines appended to it up to the cursor, in order and
\* each once (all of them when the cursor is at the end), and the cursor
\* of a stream never decreases.
C25_ExactlyOnce ==
  /\ []C25_DrainsAreThePrefix
  /\ [][C25_CursorNeverDecreases]_vars

\* Both streams were drained to the end, stdout in more than one drain
\* (the caller is back from a drain that returned the second line only).
C25_Witness ==
  /\ drained[1].out = LinesOf("out", MaxLines)
  /\ drained[1].err = LinesOf("err", MaxLines)
  /\ threads[Caller].call.method = "get_stdout"
  /\ threads[Caller].call.stage = "returned"
  /\ threads[Caller].call.ret = <<Line("out", MaxLines)>>

\* The threads that are inside a method of monitor m.
InsideOf(m) ==
  {t \in ThreadIds : Inside(threads[t].call) /\ threads[t].call.monitor = m}

\* C26: a thread runs a method of a monitor only while it holds the lock
\* of that monitor, so no two threads (caller, readers, waiter) are ever
\* inside methods of one monitor at the same time.
C26_MutualExclusion ==
  \A m \in 1..Len(monitors) :
    /\ \A t \in InsideOf(m) : monitors[m]._lock = t
    /\ Cardinality(InsideOf(m)) <= 1
    /\ InsideOf(m) = {} => monitors[m]._lock = Free

\* The waiter is inside set_finished while the caller and both readers
\* wait for the lock of the same monitor.
C26_Witness ==
  /\ Inside(threads[Waiter(1)].call)
  /\ threads[Caller].call.stage = "call"
  /\ \A s \in Streams : threads[Reader(1, s)].call.stage = "call"

\* The background processes that are running.
Running == {p \in 1..Len(procs) : procs[p].alive}
RunScriptReturned == tool_call.tool = "run_script" /\ tool_call.at = "idle"

\* C27, as stated: at most one background process of the workspace runs at
\* any time (a run_script in background mode called while one runs starts
\* no other), and run_script answers with the error message only when it
\* was called while a process was running.
C27_Claim ==
  /\ Cardinality(Running) <= 1
  /\ RunScriptReturned /\ tool_call.returned = AlreadyRunning => tool_call.busy

MonitorProcessReturned ==
  tool_call.tool = "monitor_process" /\ tool_call.at = "idle"

\* The exit code as a piece of a returned text.
Code(n) == <<"code", n>>
HasExitCode(text) == \E i \in 1..Len(text) : \E n \in 1..MaxProcs : text[i] = Code(n)

\* C29, as stated: monitor_process never raises, and called after the
\* process has finished it returns a result that contains the exit code.
C29_Claim ==
  MonitorProcessReturned =>
    /\ tool_call.raised = "no"
    /\ tool_call.finished => HasExitCode(tool_call.returned)

Finished(m) == monitors[m]._process_finished

\* Once true the finished flag stays true and the code stays what it is.
C28_FinishedIsStable ==
  Finished(1) => Finished(1)' /\ monitors[1]._process_code' = monitors[1]._process_code

\* A get_process_code that runs on the finished monitor returns the exit
\* status of the child.
C28_ExitCodeReturned ==
  /\ Finished(1)
  /\ threads[Caller].call.method = "get_process_code"
  /\ threads[Caller].call.stage = "in"
  /\ threads'[Caller].call.stage = "returned"
  => threads'[Caller].call.ret = <<procs[1].status>>

\* A drain that runs on the finished monitor returns every line that is
\* buffered and was not drained before.
C28_DrainAfterFinish ==
  \A s \in Streams :
    /\ Finished(1)
    /\ threads[Caller].call.method = (IF s = "out" THEN "get_stdout" ELSE "get_stderr")
    /\ threads[Caller].call.stage = "in2"
    /\ threads'[Caller].call.stage = "returned"
    => /\ threads'[Caller].call.ret =
            SubSeq(StreamBuffer(1, s), Len(drained[1][s]) + 1,
                   Len(StreamBuffer(1, s)))
       /\ drained'[1][s] = StreamBuffer(1, s)

\* C28: after the child has terminated the finished flag of its monitor
\* eventually becomes true and stays true; from then on the code of the
\* monitor is the child's exit status and get_process_code returns it, and
\* a drain returns the buffered lines not drained before.
C28_FinishedEventually ==
  /\ ~procs[1].alive ~> Finished(1)
  /\ [](Finished(1) =>
          ~procs[1].alive /\ monitors[1]._process_code = procs[1].status)
  /\ [][C28_FinishedIsStable]_vars
  /\ [][C28_ExitCodeReturned]_vars
  /\ [][C28_DrainAfterFinish]_vars

\* The monitor is finished with exit status 1 while a line of stdout is
\* buffered and not drained, and the caller, who asked for the code after
\* the end, has got 1.
C28_Witness ==
  /\ Finished(1)
  /\ procs[1].status = 1
  /\ Len(monitors[1]._stdout) > monitors[1]._stdout_ptr
  /\ threads[Caller].call.method = "get_process_code"
  /\ threads[Caller].call.stage = "returned"
  /\ threads[Caller].call.ret = <<1>>

\* What client.chat was given holds the system message with the protocol
\* instruction and the schemas of the bound tools.
SentInstruction ==
  \E i \in 1..Len(chat_sent.messages) :
    /\ chat_sent.messages[i].role = "system"
    /\ chat_sent.messages[i].content = create_tool_instruction(chat_model)

\* C30, as stated: in induced mode every invoke gives the client no tools
\* parameter and a message list that holds the tool instruction, the first
\* invoke as well as the later ones.
C30_Claim ==
  chat_model.induced_tool /\ invocations > 0 =>
    chat_sent.tools = None /\ SentInstruction

\* The driver is about to run a loop iteration on the Error state.
AtErrorStep ==
  pc = "loop" /\ step < max_steps /\ TypeOf(current_state) = "ERROR"

C31_RecoveryStep ==
  AtErrorStep =>
    LET target == last_stable_state_name IN
    IF retries_counter[target] > 0
      THEN /\ retries_counter' =
                [retries_counter EXCEPT ![target] = retries_counter[target] - 1]
           /\ current_state' = target
           /\ pc' = "loop"
           /\ log' = log
      ELSE /\ pc' = "done"
           /\ final_output' = FAILED
           /\ retries_counter' = retries_counter
           /\ log' = log

\* C31: a driver step on the Error state decrements the retry counter of
\* the last-stable state by one when it is positive, makes that state the
\* current state and changes no other counter; when the counter is 0, run
\* ends at once with "FAILED" and no state is executed; no counter is ever
\* negative.
C31_ErrorStep ==
  /\ [][C31_RecoveryStep]_vars
  /\ [](\A s \in Names : retries_counter[s] >= 0)

\* A Stable state with max_retries = 1 was recovered to once, failed again,
\* and the run ended with "FAILED" on its exhausted counter.
C31_Witness ==
  /\ pc = "done"
  /\ final_output = FAILED
  /\ last.op = "error"
  /\ cls[last_stable_state_name] = "Stable"
  /\ max_retries[last_stable_state_name] = 1
  /\ retries_counter[last_stable_state_name] = 0
  /\ ExecCount(last_stable_state_name) = 2

\* The driver is about to execute its current state.
AtExecuteStep ==
  pc = "loop" /\ step < max_steps /\ TypeOf(current_state) \notin {"END", "ERROR"}

EntersNewStable ==
  /\ AtExecuteStep
  /\ TypeOf(current_state) = "STABLE"
  /\ current_state # last_stable_state_name

C32_ResetOnEntry ==
  /\ EntersNewStable =>
       /\ retries_counter' =
            [retries_counter EXCEPT ![current_state] = max_retries[current_state]]
       /\ last_stable_state_name' = current_state
  /\ AtExecuteStep /\ ~EntersNewStable =>
       /\ retries_counter' = retries_counter
       /\ last_stable_state_name' = last_stable_state_name
  /\ \A s \in Names :
       retries_counter'[s] > retries_counter[s] =>
         EntersNewStable /\ s = current_state
  /\ pc = "loop" /\ last_stable_state_name' # last_stable_state_name =>
       EntersNewStable

\* C32: the retry counter of a state is reset to max_retries exactly when
\* the driver enters it as a Stable state other than the last-stable one,
\* and it becomes last-stable then; entering the last-stable state again,
\* by recovery or by a transition, resets nothing, and a Transient state
\* is never last-stable.
C32_ResetExactlyOnNewStable ==
  /\ [][C32_ResetOnEntry]_vars
  /\ [](pc # "idle" /\ last_stable_state_name # NoneVal =>
          TypeOf(last_stable_state_name) # "TRANSIENT")

\* A Stable state whose retry was consumed is the last-stable state and is
\* executed again with the counter still consumed, after a Transient state
\* was executed in this run.
C32_Witness ==
  /\ last.op = "execute"
  /\ last.state = last_stable_state_name
  /\ cls[last.state] = "Stable"
  /\ retries_counter[last.state] < max_retries[last.state]
  /\ ExecCount(last.state) >= 2
  /\ \E i \in 1..Len(log) : cls[log[i].state] = "Transient"

\* A step of the loop of _invoke_model in which tool calls were handled:
\* what was done for the calls of this turn, and the tool messages the
\* turn appended to the prompt list.
TurnHandlesCalls == invocations' = invocations + 1 /\ tool_trace' # tool_trace
TurnTrace == SubSeq(tool_trace', Len(tool_trace) + 1, Len(tool_trace'))
IsToolMessage(m) == m.role = "tool"
TurnToolMessages ==
  SelectSeq(SubSeq(prompts', Len(prompts) + 1, Len(prompts')), IsToolMessage)
Executed(entry) == entry.invoked[Len(entry.invoked)]

C33_TurnInOrder ==
  TurnHandlesCalls =>
    LET calls == response'.tool_calls
        done == TurnTrace
    IN /\ Len(done) <= Len(calls)
       /\ \A i \in 1..Len(done) : done[i].name = calls[i]
       /\ \A i \in 1..(Len(done) - 1) : done[i].outcome = "result"
       /\ IF loop_pc' = "raised"
            THEN /\ done[Len(done)].outcome # "result"
                 /\ TurnToolMessages = << >>
            ELSE /\ Len(done) = Len(calls)
                 /\ TurnToolMessages =
                      [i \in 1..Len(calls) |->
                         ToolMessage(Executed(done[i]),
                                     <<"result", Executed(done[i]), ToString(i)>>)]

\* C33: the tool calls of a model turn are handled in the order of
\* response.tool_calls, and their tool messages are appended to the prompt
\* list in that order; when call i fails no later call is handled and no
\* tool message of the turn is appended.
C33_SequentialToolCalls == [][C33_TurnInOrder]_vars

\* Two calls of a first turn gave two tool messages in their order; in the
\* second turn the first call succeeded and the second failed, and the turn
\* added no tool message.
C33_Witness ==
  /\ loop_pc = "raised"
  /\ invocations = 2
  /\ Len(tool_trace) = 4
  /\ \A i \in 1..3 : tool_trace[i].outcome = "result"
  /\ tool_trace[4].outcome = "error"
  /\ SelectSeq(prompts, IsToolMessage) =
       <<ToolMessage("Calc.add", <<"result", "Calc.add", "1">>),
         ToolMessage("Calc.add", <<"result", "Calc.add", "2">>)>>

\* C37, as stated: for every tool call at most one invocation of a
\* registered tool is made.
C37_Claim ==
  \A i \in 1..Len(tool_trace) : Len(tool_trace[i].invoked) <= 1

\* What a subscriber reading the socket k = <<reader, agent>> would be
\* given now, and the output part of that text.
SeenBy(k) == peek_latest(SocketOf(sockets[k[1]], k[2]), Ledger(k[2])).returned
OutputSeen(k) == SubSeq(SeenBy(k), 7, 9)
AgentSocketKeys == {k \in SocketKeys : k[2] \in Names}

C36_FailedExecutionCommitsNothing ==
  \A a \in {"A", "B"} :
    ExecuteAgent(a, FALSE) =>
      /\ agent_history' = agent_history
      /\ initial_context_ledger' = initial_context_ledger
      /\ \A k \in AgentSocketKeys : SeenBy(k)' = SeenBy(k)

C36_SubscriberSeesLastValidated ==
  \A k \in AgentSocketKeys :
    IF commits[k[2]] = 0 THEN SeenBy(k) = <<"None">>
    ELSE OutputSeen(k) = Out(k[2], commits[k[2]])

\* C36: an execution of an agent that fails appends no snapshot to any
\* ledger, and what a subscriber reads from the agent's socket is always
\* the output of its last execution that returned.
C36_FailureLeavesLedgers ==
  /\ [][C36_FailedExecutionCommitsNothing]_vars
  /\ []C36_SubscriberSeesLastValidated

\* Agent A returned once and then failed; B, its subscriber, has just read
\* A's socket and was given A's first output.
C36_Witness ==
  /\ io.op = "read_latest" /\ io.agent = "B" /\ io.socket = "A"
  /\ io.prev.op = "execute_agent_raised" /\ io.prev.agent = "A"
  /\ commits["A"] = 1
  /\ SubSeq(io.returned[1], 7, 9) = Out("A", 1)

\* C34, as stated: between two resets of its retry counter a Stable state
\* is recovered to at most max_retries times (the counter, which a recovery
\* decrements and only a reset raises, stays within 0..max_retries), and
\* the entry to the Error state that finds the counter of the last-stable
\* state at 0, the (max_retries + 1)-th since the reset, ends run with
\* "FAILED".
C34_Claim ==
  /\ \A s \in Names :
       cls[s] \in {"Start", "Stable"} =>
         retries_counter[s] \in 0..max_retries[s]
  /\ ( /\ pc = "done"
       /\ TypeOf(current_state) = "ERROR"
       /\ retries_counter[last_stable_state_name] = 0 )
     => final_output = FAILED

\* C35: the input passed to each executed state is the initial request for
\* the first execution of the run and, for every later one, the output of
\* the execution before it (its exception message when it raised); the
\* input the driver holds for the next execution is the same value, and a
\* recovery step leaves it alone.
C35_InputIsLastOutput ==
  /\ \A i \in 1..Len(log) :
       /\ log[i].input = IF i = 1 THEN Request ELSE log[i - 1].output
       /\ log[i].raised =>
            log[i].output =
              Msg(log[i].state,
                  Cardinality({j \in 1..i : log[j].state = log[i].state}))
  /\ pc = "loop" =>
       current_input = IF log = << >> THEN Request ELSE LastExec.output

\* A Stable state raised, was recovered to and executed again: its second
\* execution received the exception message of the first, which differs
\* from the input of the first.
C35_Witness ==
  \E i \in 1..(Len(log) - 1) :
    /\ cls[log[i].state] = "Stable"
    /\ log[i].raised
    /\ log[i].to = ErrorStateId
    /\ log[i + 1].state = log[i].state
    /\ log[i + 1].input = log[i].output
    /\ log[i + 1].input # log[i].input

\* C38, as stated (its safety part): a monitor that is marked finished is
\* the monitor of a child that has terminated, and the code it holds is
\* the exit status of that child.
C38_Claim ==
  \A m \in 1..Len(monitors) :
    monitors[m]._process_finished =>
      /\ ~procs[m].alive
      /\ monitors[m]._process_code = procs[m].status

\* C40, as stated: whenever a monitor reports that its process has
\* finished, every line the child wrote to stdout and stderr has been
\* appended to the monitor's buffers.
C40_Claim ==
  \A m \in 1..Len(monitors) :
    monitors[m]._process_finished =>
      \A s \in Streams : StreamBuffer(m, s) = LinesOf(s, procs[m].written[s])

\* The caller is inside write_stdin, holding the lock of the monitor, and
\* its write is blocked on the full stdin pipe of a living child.
StdinBlocked ==
  /\ threads[Caller].call.method = "write_stdin"
  /\ Inside(threads[Caller].call)
  /\ threads[Caller].call.arg[1] > 0
  /\ procs[1].alive
  /\ procs[1].stdin = PipeCapacity

\* The stdout reader has read a line and waits for the lock to append it.
ReaderLockedOut ==
  /\ threads[Reader(1, "out")].call.stage = "call"
  /\ ~lock_acquire(monitors[1], Reader(1, "out")).acquired

\* The child has output left to write and its stdout pipe is full.
ChildBlocked ==
  /\ procs[1].alive
  /\ procs[1].written["out"] < procs[1].limit["out"]
  /\ Len(procs[1].pipe["out"]) = PipeCapacity

\* C39, as stated: no reachable interleaving of the caller's write_stdin,
\* the reader workers and the child deadlocks: a write_stdin blocked on a
\* full stdin pipe does not keep the stdout reader from the lock while the
\* child is blocked on the output the reader should drain.
C39_Claim == ~(StdinBlocked /\ ReaderLockedOut /\ ChildBlocked)

====
